---- MODULE Spec2Model ----
(***************************************************************************)
(* Model of wardle/empi: the EMPI REST front end (request validation, the  *)
(* result cache, the bounded remote call) and the normalisation of an EMPI *)
(* response envelope into a Patient.                                       *)
(*                                                                         *)
(* Texts whose characters the code inspects (name components, timestamps)  *)
(* are tuples of one-character strings; texts that are only compared,      *)
(* concatenated or measured are TLA+ strings.                              *)
(***************************************************************************)
EXTENDS Integers, Sequences, FiniteSets, TLC

VARIABLES
    mode,       \* how main2 was started: "serve", "cli"; "invoke" for a call of Invoke
    cacheOn,    \* App.Cache != nil
    ttl,        \* the cache's default expiration, in minutes (*cacheMinutes)
    fake,       \* App.Fake
    endpoint,   \* App.Endpoint, or ep of the command-line run
    now,        \* the clock, in minutes
    cache,      \* App.Cache: key -> item or NoItem
    req,        \* the handler goroutines: one record per request slot
    cli,        \* the command-line / Invoke run
    input,      \* the value a pure function is applied to
    output,     \* its result
    initPc,     \* package sds: where its init function stands
    systems,    \* package identifiers: system URI -> display name
    resolvers,  \* package identifiers: the system URIs with a resolver, and the resolver
    mappers,    \* package identifiers: the (source, target) pairs with a mapper, and the mapper
    codes,      \* package sds: code -> Role
    jobTitles,  \* package sds: job title -> code
    sdsReverseMapping   \* package sds: SNOMED concept -> code

vars ==
    <<mode, cacheOn, ttl, fake, endpoint, now, cache, req, cli, input, output,
      initPc, systems, resolvers, mappers, codes, jobTitles, sdsReverseMapping>>

serverVars == <<mode, cacheOn, ttl, fake, endpoint, now, cache, req, cli>>
pureVars == <<input, output>>
registryVars == <<systems, resolvers, mappers>>
sdsVars == <<initPc, registryVars, codes, jobTitles, sdsReverseMapping>>

\* A nil pointer / nil error.
Nil == [nil |-> TRUE]

\* package sds and package identifiers: the variables as declared, before init has run
SdsNotStarted ==
    /\ initPc = "start"
    /\ systems = <<>> /\ resolvers = <<>> /\ mappers = <<>>
    /\ codes = <<>> /\ jobTitles = <<>>
    /\ sdsReverseMapping = <<>>

-----------------------------------------------------------------------------
(* Bounds of the model *)

\* handler goroutines running at once
NumReqs == 2
\* the clock stops here
MaxTime == 2
\* largest cache expiration tried, in minutes
MaxCacheMinutes == 1
\* longest repeated group (PID.3, PID.5, ...) in a response
MaxList == 2

-----------------------------------------------------------------------------
(* Characters and texts *)

Digits == {"0", "1", "2", "3", "4", "5", "6", "7", "8", "9"}

DigitVal(c) ==
    CASE c = "0" -> 0 [] c = "1" -> 1 [] c = "2" -> 2 [] c = "3" -> 3
      [] c = "4" -> 4 [] c = "5" -> 5 [] c = "6" -> 6 [] c = "7" -> 7
      [] c = "8" -> 8 [] c = "9" -> 9

\* unicode.IsSpace on the characters the model uses
IsSpace(c) == c \in {" ", "\t", "\n"}

RECURSIVE TrimLeft(_)
TrimLeft(s) ==
    IF s # <<>> /\ IsSpace(Head(s)) THEN TrimLeft(Tail(s)) ELSE s

RECURSIVE TrimRight(_)
TrimRight(s) ==
    IF s # <<>> /\ IsSpace(s[Len(s)]) THEN TrimRight(SubSeq(s, 1, Len(s) - 1)) ELSE s

\* strings.TrimSpace: leading and trailing white space removed, inner kept
TrimSpace(s) == TrimRight(TrimLeft(s))

\* d[:n] for n <= len(d)
Prefix(s, n) == SubSeq(s, 1, n)

-----------------------------------------------------------------------------
(* Dates: time.Parse with layout "20060102", and time.Time.IsZero *)

IsLeap(y) == (y % 4 = 0) /\ ((y % 100 # 0) \/ (y % 400 = 0))

DaysIn(m, y) ==
    IF m = 2 THEN (IF IsLeap(y) THEN 29 ELSE 28)
    ELSE IF m \in {4, 6, 9, 11} THEN 30 ELSE 31

AllDigits(s) == \A i \in 1..Len(s) : s[i] \in Digits

Num2(s, i) == 10 * DigitVal(s[i]) + DigitVal(s[i + 1])

Num4(s, i) == 100 * Num2(s, i) + Num2(s, i + 2)

\* time.Parse("20060102", d): four digits of year, two of month (1..12), two of
\* day (1..days of that month), and no text left over.
TimeParse(d) ==
    IF Len(d) # 8 \/ ~AllDigits(d) THEN [err |-> TRUE, t |-> Nil]
    ELSE LET y == Num4(d, 1)
             m == Num2(d, 5)
             dd == Num2(d, 7)
         IN IF m < 1 \/ m > 12 \/ dd < 1 \/ dd > DaysIn(m, y)
            THEN [err |-> TRUE, t |-> Nil]
            ELSE [err |-> FALSE, t |-> [year |-> y, month |-> m, day |-> dd]]

\* time.Time.IsZero: January 1, year 1, 00:00:00 UTC
IsZero(t) == t = [year |-> 1, month |-> 1, day |-> 1]

\* a mutant: the whole text is parsed, not its first 8 characters
parseDate_NoTruncate(d) ==
    LET r == TimeParse(d)
    IN IF r.err \/ IsZero(r.t) THEN [t |-> Nil, err |-> r.err]
       ELSE [t |-> r.t, err |-> FALSE]

parseDate(d) ==
    LET d8 == IF Len(d) > 8 THEN Prefix(d, 8) ELSE d
        r == TimeParse(d8)
    IN IF r.err \/ IsZero(r.t) THEN [t |-> Nil, err |-> r.err]
       ELSE [t |-> r.t, err |-> FALSE]

-----------------------------------------------------------------------------
(* The response envelope and its normalisation                             *)
(* An envelope is a record of the fields the code reads:                   *)
(*   PID3  : sequence of [CX1, CX4HD1]          PID5 : sequence of         *)
(*   [FN1, XPN2, XPN3, XPN5] (tuples of characters)                        *)
(*   PID7TS1, PID29TS1 : timestamps (tuples of characters)   PID8 : text   *)
(*   PID11 : sequence of [SAD1, XAD2, XAD3, XAD4, XAD5, XAD13, XAD14]      *)
(*   PID13, PID14 : sequences of [XTN1, XTN4, LongName]                    *)
(*   PD13XON3, PD14XCN1 : texts                                            *)
(***************************************************************************)

surname(e) == IF Len(e.PID5) > 0 THEN e.PID5[1].FN1 ELSE <<>>

firstnames(e) ==
    TrimSpace(IF Len(e.PID5) > 0
              THEN e.PID5[1].XPN2 \o <<" ">> \o e.PID5[1].XPN3
              ELSE <<>>)

title(e) == IF Len(e.PID5) > 0 THEN e.PID5[1].XPN5 ELSE <<>>

gender(e) == e.PID8

dateOf(text) ==
    IF Len(text) > 0
    THEN LET r == parseDate(text) IN IF ~r.err THEN r.t ELSE Nil
    ELSE Nil

dateBirth(e) == dateOf(e.PID7TS1)

dateDeath(e) == dateOf(e.PID29TS1)

surgery(e) == e.PD13XON3

generalPractitioner(e) == e.PD14XCN1

NewIdentifier(authority, identifier) ==
    [Use |-> "official", System |-> authority,
     Assigner |-> [Reference |-> authority, Display |-> authority],
     Value |-> identifier]

\* a mutant: an entry is kept when either component is present
RECURSIVE identifiersFrom_Either(_)
identifiersFrom_Either(ids) ==
    IF ids = <<>> THEN <<>>
    ELSE LET id == Head(ids)
         IN (IF id.CX4HD1 # "" \/ id.CX1 # ""
             THEN <<NewIdentifier(id.CX4HD1, id.CX1)>> ELSE <<>>)
            \o identifiersFrom_Either(Tail(ids))

\* the loop of envelope.identifiers over PID.3
RECURSIVE identifiersFrom(_)
identifiersFrom(ids) ==
    IF ids = <<>> THEN <<>>
    ELSE LET id == Head(ids)
         IN (IF id.CX4HD1 # "" /\ id.CX1 # ""
             THEN <<NewIdentifier(id.CX4HD1, id.CX1)>> ELSE <<>>)
            \o identifiersFrom(Tail(ids))

identifiers(e) == identifiersFrom(e.PID3)

NewAddress(a) ==
    [Line |-> a.SAD1, City |-> a.XAD2, District |-> a.XAD3, Country |-> a.XAD4,
     PostalCode |-> a.XAD5,
     Period |-> [Start |-> parseDate(a.XAD13).t, End |-> parseDate(a.XAD14).t]]

\* a mutant: an address whose start date cannot be parsed is dropped
addresses_SkipUndated(e) ==
    LET RECURSIVE from(_)
        from(as) ==
            IF as = <<>> THEN <<>>
            ELSE (IF parseDate(Head(as).XAD13).err THEN <<>> ELSE <<NewAddress(Head(as))>>)
                 \o from(Tail(as))
    IN from(e.PID11)

addresses(e) == [i \in 1..Len(e.PID11) |-> NewAddress(e.PID11[i])]

\* a mutant: the email is looked at only when there is no number
RECURSIVE telecomFrom_NumberOrEmail(_)
telecomFrom_NumberOrEmail(tels) ==
    IF tels = <<>> THEN <<>>
    ELSE LET t == Head(tels)
         IN (IF t.XTN1 # ""
             THEN <<[System |-> "phone", Value |-> t.XTN1, Description |-> t.LongName]>>
             ELSE IF t.XTN4 # ""
             THEN <<[System |-> "email", Value |-> t.XTN4, Description |-> ""]>>
             ELSE <<>>)
            \o telecomFrom_NumberOrEmail(Tail(tels))

RECURSIVE telecomFrom(_)
telecomFrom(tels) ==
    IF tels = <<>> THEN <<>>
    ELSE LET t == Head(tels)
         IN (IF t.XTN1 # ""
             THEN <<[System |-> "phone", Value |-> t.XTN1, Description |-> t.LongName]>>
             ELSE <<>>)
            \o (IF t.XTN4 # ""
                THEN <<[System |-> "email", Value |-> t.XTN4, Description |-> ""]>>
                ELSE <<>>)
            \o telecomFrom(Tail(tels))

telecom(e) == telecomFrom(e.PID13) \o telecomFrom(e.PID14)

\* a mutant: absent as soon as the surname is empty
ToPatient_SurnameOnly(e) ==
    IF surname(e) = <<>>
    THEN [pt |-> Nil, err |-> Nil]
    ELSE [pt |-> [Lastname |-> surname(e), Firstnames |-> firstnames(e),
                  Title |-> title(e), Gender |-> gender(e),
                  BirthDate |-> dateBirth(e), DeathDate |-> dateDeath(e),
                  Identifiers |-> identifiers(e), Addresses |-> addresses(e),
                  Surgery |-> surgery(e),
                  GeneralPractitioner |-> generalPractitioner(e),
                  Telecom |-> telecom(e)],
          err |-> Nil]

ToPatient(e) ==
    IF surname(e) = <<>> /\ firstnames(e) = <<>>
    THEN [pt |-> Nil, err |-> Nil]
    ELSE [pt |-> [Lastname |-> surname(e), Firstnames |-> firstnames(e),
                  Title |-> title(e), Gender |-> gender(e),
                  BirthDate |-> dateBirth(e), DeathDate |-> dateDeath(e),
                  Identifiers |-> identifiers(e), Addresses |-> addresses(e),
                  Surgery |-> surgery(e),
                  GeneralPractitioner |-> generalPractitioner(e),
                  Telecom |-> telecom(e)],
          err |-> Nil]

-----------------------------------------------------------------------------
(* Endpoints *)

UnknownEndpoint == 0
ProductionEndpoint == 1
TestingEndpoint == 2
DevelopmentEndpoint == 3

endpointURLs ==
    <<"",
      "https://mpilivequeries.cymru.nhs.uk/PatientDemographicsQueryWS.asmx",
      "https://mpitest.cymru.nhs.uk/PatientDemographicsQueryWS.asmx",
      "http://ndc06srvmpidev2.cymru.nhs.uk:23000/PatientDemographicsQueryWS.asmx">>

endpointCodes == <<"", "P", "U", "T">>

\* strings.ToUpper on the characters the model uses
ToUpper(c) ==
    CASE c = "p" -> "P" [] c = "t" -> "T" [] c = "d" -> "D" [] OTHER -> c

\* a mutant: the flag is compared as it was typed
LookupEndpoint_CaseSensitive(s) ==
    IF s = <<>> THEN UnknownEndpoint
    ELSE CASE s[1] = "P" -> ProductionEndpoint
           [] s[1] = "T" -> TestingEndpoint
           [] s[1] = "D" -> DevelopmentEndpoint
           [] OTHER -> UnknownEndpoint

\* s is a tuple of characters
LookupEndpoint(s) ==
    IF s = <<>> THEN UnknownEndpoint
    ELSE CASE ToUpper(s[1]) = "P" -> ProductionEndpoint
           [] ToUpper(s[1]) = "T" -> TestingEndpoint
           [] ToUpper(s[1]) = "D" -> DevelopmentEndpoint
           [] OTHER -> UnknownEndpoint

-----------------------------------------------------------------------------
(* Authorities *)

AuthorityUnknown == 0
AuthorityNHS == 1
AuthorityEMPI == 2
AuthorityABH == 3
AuthorityABMU == 4
AuthorityBCUCentral == 5
AuthorityBCUMaelor == 6
AuthorityBCUWest == 7
AuthorityCT == 8
AuthorityCV == 9
AuthorityHD == 10
AuthorityPowys == 11

\* indexed by Authority + 1
authorityCodes ==
    <<"", "NHS", "100", "139", "108", "109", "110", "111", "126", "140", "149", "170">>

authorityTypes ==
    <<"", "NH", "PE", "PI", "PI", "PI", "PI", "PI", "PI", "PI", "PI", "PI">>

\* a mutant: the empty code entry is skipped, so "" has no index to return
\* and unknown codes fall to the first real authority
LookupAuthority_DefaultNHS(authority) ==
    IF \E i \in 2..Len(authorityCodes) : authorityCodes[i] = authority
    THEN (CHOOSE i \in 2..Len(authorityCodes) : authorityCodes[i] = authority) - 1
    ELSE AuthorityNHS

\* a mutant: the codes are compared without regard to case
LookupAuthority_FoldCase(authority) ==
    LET folded == IF authority \in {"nhs", "Nhs"} THEN "NHS" ELSE authority
    IN IF \E i \in 1..Len(authorityCodes) : authorityCodes[i] = folded
       THEN (CHOOSE i \in 1..Len(authorityCodes) :
               /\ authorityCodes[i] = folded
               /\ \A j \in 1..(i - 1) : authorityCodes[j] # folded) - 1
       ELSE AuthorityUnknown

\* the first index whose code equals the text, else AuthorityUnknown
LookupAuthority(authority) ==
    IF \E i \in 1..Len(authorityCodes) : authorityCodes[i] = authority
    THEN (CHOOSE i \in 1..Len(authorityCodes) :
            /\ authorityCodes[i] = authority
            /\ \A j \in 1..(i - 1) : authorityCodes[j] # authority) - 1
    ELSE AuthorityUnknown

\* the Authority enumeration
Authorities == AuthorityUnknown..AuthorityPowys

\* a mutant: every authority but the NHS is sent as a patient identifier ("PI")
NewIdentifierRequest_NhsOrPI(identifier, authority, sender, receiver, processingID, stamp, uuid) ==
    [Identifier |-> identifier,
     Authority |-> authorityCodes[authority + 1],
     AuthorityType |-> IF authority = AuthorityNHS THEN "NH" ELSE "PI",
     SendingApplication |-> sender, SendingFacility |-> sender,
     ReceivingApplication |-> receiver, ReceivingFacility |-> receiver,
     DateTime |-> stamp, MessageControlID |-> uuid, ProcessingID |-> processingID]

\* the data the request template is filled with; stamp is time.Now() in the layout
\* YYYYMMDDHHMMSS and uuid a fresh UUID
NewIdentifierRequest(identifier, authority, sender, receiver, processingID, stamp, uuid) ==
    [Identifier |-> identifier,
     Authority |-> authorityCodes[authority + 1],
     AuthorityType |-> authorityTypes[authority + 1],
     SendingApplication |-> sender, SendingFacility |-> sender,
     ReceivingApplication |-> receiver, ReceivingFacility |-> receiver,
     DateTime |-> stamp, MessageControlID |-> uuid, ProcessingID |-> processingID]

-----------------------------------------------------------------------------
(* The remote EMPI service, as performRequest sees it *)

ZeroEnvelope ==
    [PID3 |-> <<>>, PID5 |-> <<>>, PID7TS1 |-> <<>>, PID29TS1 |-> <<>>, PID8 |-> "",
     PID11 |-> <<>>, PID13 |-> <<>>, PID14 |-> <<>>, PD13XON3 |-> "", PD14XCN1 |-> ""]

\* the record the service holds for an identifier: it lists the identifier asked for
FoundEnvelope(code, identifier) ==
    [ZeroEnvelope EXCEPT
        !.PID3 = <<[CX1 |-> identifier, CX4HD1 |-> code]>>,
        !.PID5 = <<[FN1 |-> <<"J", "O", "N", "E", "S">>, XPN2 |-> <<"A", "L">>,
                    XPN3 |-> <<>>, XPN5 |-> <<"M", "R">>]>>,
        !.PID7TS1 = <<"1", "9", "6", "0", "0", "1", "0", "1", "0", "0", "0", "0", "0", "0">>,
        !.PID8 = "M"]

\* What the service does with one POST: the phase in which the caller's deadline
\* elapsed ("none": it did not), whether the connection and the read of the body
\* fail, the HTTP status, and the body: not XML at all, XML with another root
\* element, or an envelope (a fault document is an envelope without a PID segment).
\* Fields the call never gets to are left at "-" / 0.
NoBody == [kind |-> "-", env |-> ZeroEnvelope]

Bodies(code, identifier) ==
    {[kind |-> "notxml", env |-> ZeroEnvelope],
     [kind |-> "wrongroot", env |-> ZeroEnvelope],
     [kind |-> "envelope", env |-> ZeroEnvelope],
     [kind |-> "envelope", env |-> FoundEnvelope(code, identifier)]}

RemoteBehaviours(code, identifier, withDeadline) ==
    (IF withDeadline
     THEN {[deadline |-> "connect", conn |-> "-", read |-> "-", status |-> 0, body |-> NoBody],
           [deadline |-> "body", conn |-> "ok", read |-> "-", status |-> 200, body |-> NoBody]}
     ELSE {})
    \cup {[deadline |-> "none", conn |-> "fail", read |-> "-", status |-> 0, body |-> NoBody],
          [deadline |-> "none", conn |-> "ok", read |-> "fail", status |-> 200, body |-> NoBody]}
    \cup [deadline : {"none"}, conn : {"ok"}, read : {"ok"}, status : {200},
          body : Bodies(code, identifier)]
    \cup [deadline : {"none"}, conn : {"ok"}, read : {"ok"}, status : {500},
          body : {[kind |-> "notxml", env |-> ZeroEnvelope],
                  [kind |-> "envelope", env |-> ZeroEnvelope]}]

\* errors: whether the value is a *url.Error, and what its Timeout() reports
ErrURLTimeout == [url |-> TRUE, timeout |-> TRUE, what |-> "Post: context deadline exceeded"]
ErrURLOther == [url |-> TRUE, timeout |-> FALSE, what |-> "Post: connection refused"]
ErrDeadline == [url |-> FALSE, timeout |-> TRUE, what |-> "context deadline exceeded"]
ErrRead == [url |-> FALSE, timeout |-> FALSE, what |-> "unexpected EOF"]
ErrXML == [url |-> FALSE, timeout |-> FALSE, what |-> "xml: syntax error"]

\* xml.Unmarshal(body, &e): fields absent from the document keep their zero value
Unmarshal(body) ==
    IF body.kind = "envelope" THEN [e |-> body.env, err |-> Nil]
    ELSE [e |-> ZeroEnvelope, err |-> ErrXML]

\* a mutant: the error of xml.Unmarshal is dropped
performRequest_IgnoreXML(rb, endpointURL, processingID, authority, identifier) ==
    IF rb.deadline = "connect" THEN [pt |-> Nil, err |-> ErrURLTimeout]
    ELSE IF rb.conn = "fail" THEN [pt |-> Nil, err |-> ErrURLOther]
    ELSE IF rb.deadline = "body" THEN [pt |-> Nil, err |-> ErrDeadline]
    ELSE IF rb.read = "fail" THEN [pt |-> Nil, err |-> ErrRead]
    ELSE ToPatient(Unmarshal(rb.body).e)

\* performRequest, given what the service does with the POST (rb)
performRequest(rb, endpointURL, processingID, authority, identifier) ==
    IF rb.deadline = "connect" THEN [pt |-> Nil, err |-> ErrURLTimeout]
    ELSE IF rb.conn = "fail" THEN [pt |-> Nil, err |-> ErrURLOther]
    ELSE IF rb.deadline = "body" THEN [pt |-> Nil, err |-> ErrDeadline]
    ELSE IF rb.read = "fail" THEN [pt |-> Nil, err |-> ErrRead]
    ELSE LET u == Unmarshal(rb.body)
         IN IF u.err # Nil THEN [pt |-> Nil, err |-> u.err]
            ELSE ToPatient(u.e)

\* resp.Body in performRequest: obtained when client.Do succeeds, closed by the
\* deferred Close, which is registered after the body has been read without error
respBody(rb) ==
    LET obtained == rb.deadline # "connect" /\ rb.conn = "ok"
    IN [obtained |-> obtained,
        closed |-> obtained /\ rb.deadline # "body" /\ rb.read = "ok"]

performFake(authority, identifier) ==
    [pt |-> [Lastname |-> <<"D", "U", "M", "M", "Y">>,
             Firstnames |-> <<"A", "L", "B", "E", "R", "T">>,
             Title |-> <<"D", "R">>, Gender |-> "M",
             BirthDate |-> [year |-> 1960, month |-> 1, day |-> 1], DeathDate |-> Nil,
             Surgery |-> "W95010", GeneralPractitioner |-> "G9342400",
             Identifiers |-> <<[System |-> authorityCodes[authority + 1], Value |-> identifier],
                               [System |-> "103", Value |-> "M1147907"]>>,
             Addresses |-> <<[Line |-> "59 Robins Hill", City |-> "Brackla",
                              District |-> "BRIDGEND", PostalCode |-> "CF31 2PJ",
                              Country |-> "WALES"]>>,
             Telecom |-> <<[System |-> "phone", Value |-> "02920747747",
                            Description |-> "Work number"],
                           [System |-> "email", Value |-> "test@test.com",
                            Description |-> "Work email"]>>],
     err |-> Nil]

-----------------------------------------------------------------------------
(* The cache (patrickmn/go-cache behind App.getCache / App.setCache) *)

NoItem == [none |-> TRUE]

\* the keys the model's requests can form
IdentifierInputs == {"7253698428"}
NhsNumberInputs == {"7253698428", "M1"}
AuthorityInputs == {"NHS", "140", "ZZZ"}
UserInputs == {"", "u"}
Keys ==
    {a \o "/" \o i : a \in {x \in AuthorityInputs : LookupAuthority(x) # AuthorityUnknown},
                     i \in IdentifierInputs}

\* a mutant: an item is served however old it is
getCache_NoExpiry(key) ==
    IF ~cacheOn THEN [pt |-> Nil, found |-> FALSE]
    ELSE IF cache[key] # NoItem THEN [pt |-> cache[key].pt, found |-> TRUE]
    ELSE [pt |-> Nil, found |-> FALSE]

getCache(key) ==
    IF ~cacheOn THEN [pt |-> Nil, found |-> FALSE]
    ELSE IF cache[key] # NoItem /\ ~(now > cache[key].exp)
         THEN [pt |-> cache[key].pt, found |-> TRUE]
         ELSE [pt |-> Nil, found |-> FALSE]

\* a mutant: a value is stored only when the key has no live item (cache.Add)
setCache_KeepFirst(key, value) ==
    IF ~cacheOn THEN cache
    ELSE IF cache[key] # NoItem /\ ~(now > cache[key].exp) THEN cache
    ELSE [cache EXCEPT ![key] = [pt |-> value, exp |-> now + ttl]]

\* the cache after setCache(key, value)
setCache(key, value) ==
    IF ~cacheOn THEN cache
    ELSE [cache EXCEPT ![key] = [pt |-> value, exp |-> now + ttl]]

-----------------------------------------------------------------------------
(* The REST handlers *)

Reqs == 1..NumReqs

IdleReq ==
    [pc |-> "idle", route |-> "-", authority |-> "", identifier |-> "", user |-> "",
     key |-> "", cacheRead |-> FALSE, hit |-> FALSE,
     called |-> "none", calls |-> 0, calledAuth |-> AuthorityUnknown, calledURL |-> "",
     deadline |-> "-", conn |-> "-", read |-> "-", remoteStatus |-> 0, bodyKind |-> "-",
     cancelled |-> FALSE, bodyObtained |-> FALSE, bodyClosed |-> FALSE,
     wrote |-> FALSE, status |-> 0, pt |-> Nil]

\* a mutant: a nil patient is reported as a failure of the server
Respond_AbsentIsError(rec, pt) ==
    [rec EXCEPT !.pc = "done", !.pt = pt, !.status = IF pt = Nil THEN 500 ELSE 200]

\* the end of writeIdentifier: 404 for a nil patient, else the patient as JSON
Respond(rec, pt) ==
    [rec EXCEPT !.pc = "done", !.pt = pt, !.status = IF pt = Nil THEN 404 ELSE 200]

\* http.Error(w, ..., code)
HttpError(rec, code) == [rec EXCEPT !.pc = "done", !.status = code]

\* a mutant: the 'user' parameter is not looked at
Validate_NoUserCheck(route, authority, identifier, user) ==
    IF route = "nhsnumber"
    THEN (IF identifier = "" \/ Len(identifier) # 10
          THEN [ok |-> FALSE, authority |-> ""]
          ELSE [ok |-> TRUE, authority |-> authorityCodes[AuthorityNHS + 1]])
    ELSE (IF LookupAuthority(authority) = AuthorityUnknown
          THEN [ok |-> FALSE, authority |-> ""]
          ELSE [ok |-> TRUE, authority |-> authority])

\* What GetByNhsNumber / GetByIdentifier pass to writeIdentifier, or the refusal
Validate(route, authority, identifier, user) ==
    IF user = "" THEN [ok |-> FALSE, authority |-> ""]
    ELSE IF route = "nhsnumber"
    THEN (IF identifier = "" \/ Len(identifier) # 10
          THEN [ok |-> FALSE, authority |-> ""]
          ELSE [ok |-> TRUE, authority |-> authorityCodes[AuthorityNHS + 1]])
    ELSE (IF LookupAuthority(authority) = AuthorityUnknown
          THEN [ok |-> FALSE, authority |-> ""]
          ELSE [ok |-> TRUE, authority |-> authority])

\* a mutant: every key is formed with the code of the NHS number
CacheKey_AlwaysNHS(authority, identifier) ==
    authorityCodes[AuthorityNHS + 1] \o "/" \o identifier

CacheKey(authority, identifier) == authority \o "/" \o identifier

\* the status writeIdentifier answers an error of the lookup with
ErrorStatus(err) == IF err.url /\ err.timeout THEN 408 ELSE 500

\* An answer is delivered as soon as it is written: no handler acts while another
\* one's answer is pending (the answer is kept one state, to be observed).
NoAnswerPending == \A q \in Reqs : req[q].pc # "done"

\* A request arrives at handler r and runs until it answers or waits for the
\* remote service: GetByNhsNumber / GetByIdentifier, then writeIdentifier up to
\* the call of performRequest (performFake does not wait). The goroutines have no
\* names: the request is given to the first handler slot that is free.
Request(r, route, authority, identifier, user) ==
    /\ mode = "serve"
    /\ NoAnswerPending
    /\ req[r].pc = "idle"
    /\ \A q \in Reqs : q < r => req[q].pc # "idle"
    /\ LET v == Validate(route, authority, identifier, user)
           base == [IdleReq EXCEPT !.route = route, !.authority = authority,
                                   !.identifier = identifier, !.user = user]
       IN IF ~v.ok
          THEN /\ req' = [req EXCEPT ![r] = HttpError(base, 400)]
               /\ UNCHANGED cache
          ELSE LET key == CacheKey(v.authority, identifier)
                   g == getCache(key)
                   rec == [base EXCEPT !.key = key, !.cacheRead = TRUE,
                                       !.hit = g.found]
               IN IF g.found
                  THEN /\ req' = [req EXCEPT ![r] = Respond(rec, g.pt)]
                       /\ UNCHANGED cache
                  ELSE IF fake
                  THEN LET res == performFake(LookupAuthority(v.authority), identifier)
                       IN /\ cache' = setCache(key, res.pt)
                          /\ req' = [req EXCEPT ![r] =
                                 Respond([rec EXCEPT !.called = "fake", !.wrote = TRUE,
                                              !.calledAuth = LookupAuthority(v.authority)],
                                         res.pt)]
                  ELSE /\ req' = [req EXCEPT ![r] =
                             [rec EXCEPT !.pc = "inflight", !.called = "remote", !.calls = 1,
                                         !.calledAuth = LookupAuthority(v.authority),
                                         !.calledURL = endpointURLs[endpoint + 1]]]
                       /\ UNCHANGED cache
    /\ UNCHANGED <<mode, cacheOn, ttl, fake, endpoint, now, cli, pureVars, sdsVars>>

\* the authority code writeIdentifier was given for the request in rec
PassedAuthority(rec) ==
    IF rec.route = "nhsnumber" THEN authorityCodes[AuthorityNHS + 1] ELSE rec.authority

\* a mutant: a lookup that timed out is made a second time
Complete_RetryTimeout(r, rb) ==
    /\ mode = "serve"
    /\ NoAnswerPending
    /\ req[r].pc = "inflight"
    /\ LET rec == [req[r] EXCEPT !.deadline = rb.deadline, !.conn = rb.conn,
                                 !.read = rb.read, !.remoteStatus = rb.status,
                                 !.bodyKind = rb.body.kind, !.cancelled = TRUE,
                                 !.bodyObtained = respBody(rb).obtained,
                                 !.bodyClosed = respBody(rb).closed]
           res == performRequest(rb, endpointURLs[endpoint + 1], endpointCodes[endpoint + 1],
                                 LookupAuthority(PassedAuthority(rec)), rec.identifier)
       IN IF res.err # Nil /\ res.err.timeout /\ req[r].calls < 2
          THEN /\ req' = [req EXCEPT ![r].calls = @ + 1]
               /\ UNCHANGED cache
          ELSE IF res.err # Nil
          THEN /\ req' = [req EXCEPT ![r] = HttpError(rec, ErrorStatus(res.err))]
               /\ UNCHANGED cache
          ELSE /\ cache' = setCache(rec.key, res.pt)
               /\ req' = [req EXCEPT ![r] = Respond([rec EXCEPT !.wrote = TRUE], res.pt)]
    /\ UNCHANGED <<mode, cacheOn, ttl, fake, endpoint, now, cli, pureVars, sdsVars>>

\* a mutant: the result is stored before the error is looked at
Complete_StoreFirst(r, rb) ==
    /\ mode = "serve"
    /\ NoAnswerPending
    /\ req[r].pc = "inflight"
    /\ LET rec == [req[r] EXCEPT !.deadline = rb.deadline, !.conn = rb.conn,
                                 !.read = rb.read, !.remoteStatus = rb.status,
                                 !.bodyKind = rb.body.kind, !.cancelled = TRUE,
                                 !.bodyObtained = respBody(rb).obtained,
                                 !.bodyClosed = respBody(rb).closed, !.wrote = TRUE]
           res == performRequest(rb, endpointURLs[endpoint + 1], endpointCodes[endpoint + 1],
                                 LookupAuthority(PassedAuthority(rec)), rec.identifier)
       IN /\ cache' = setCache(rec.key, res.pt)
          /\ IF res.err # Nil
             THEN req' = [req EXCEPT ![r] = HttpError(rec, ErrorStatus(res.err))]
             ELSE req' = [req EXCEPT ![r] = Respond(rec, res.pt)]
    /\ UNCHANGED <<mode, cacheOn, ttl, fake, endpoint, now, cli, pureVars, sdsVars>>

\* performRequest returns to handler r; writeIdentifier cancels the context, then
\* reports the error, or stores the result and answers.
Complete(r, rb) ==
    /\ mode = "serve"
    /\ NoAnswerPending
    /\ req[r].pc = "inflight"
    /\ LET rec == [req[r] EXCEPT !.deadline = rb.deadline, !.conn = rb.conn,
                                 !.read = rb.read, !.remoteStatus = rb.status,
                                 !.bodyKind = rb.body.kind, !.cancelled = TRUE,
                                 !.bodyObtained = respBody(rb).obtained,
                                 !.bodyClosed = respBody(rb).closed]
           res == performRequest(rb, endpointURLs[endpoint + 1], endpointCodes[endpoint + 1],
                                 LookupAuthority(PassedAuthority(rec)), rec.identifier)
       IN IF res.err # Nil
          THEN /\ req' = [req EXCEPT ![r] = HttpError(rec, ErrorStatus(res.err))]
               /\ UNCHANGED cache
          ELSE /\ cache' = setCache(rec.key, res.pt)
               /\ req' = [req EXCEPT ![r] = Respond([rec EXCEPT !.wrote = TRUE], res.pt)]
    /\ UNCHANGED <<mode, cacheOn, ttl, fake, endpoint, now, cli, pureVars, sdsVars>>

\* the answer of handler r is delivered and the handler returns
Deliver(r) ==
    /\ mode = "serve"
    /\ req[r].pc = "done"
    /\ req' = [req EXCEPT ![r] = IdleReq]
    /\ UNCHANGED <<mode, cacheOn, ttl, fake, endpoint, now, cache, cli, pureVars, sdsVars>>

\* a minute passes
Tick ==
    /\ mode = "serve"
    /\ NoAnswerPending
    /\ now < MaxTime
    /\ now' = now + 1
    /\ UNCHANGED <<mode, cacheOn, ttl, fake, endpoint, cache, req, cli, pureVars, sdsVars>>

\* the cache's janitor (cleanup interval 2 * cacheMinutes) deletes expired items
Janitor ==
    /\ mode = "serve"
    /\ NoAnswerPending
    /\ cacheOn
    /\ \E k \in Keys : cache[k] # NoItem /\ now > cache[k].exp
    /\ cache' = [k \in Keys |->
                    IF cache[k] # NoItem /\ now > cache[k].exp THEN NoItem ELSE cache[k]]
    /\ UNCHANGED <<mode, cacheOn, ttl, fake, endpoint, now, req, cli, pureVars, sdsVars>>

-----------------------------------------------------------------------------
(* The command-line run of main2, and Invoke *)

EndpointInputs ==
    {<<"P">>, <<"p">>, <<"T", "e">>, <<"t">>, <<"D">>, <<"d">>, <<"x">>, <<"x", "P">>,
     <<"U">>, <<>>}

\* the -endpoint flags tried for the server: the flag's default, and a refused one
ServeEndpointInputs == {<<"D">>, <<"x">>}

IdleCli ==
    [pc |-> "-", authority |-> "", identifier |-> "", url |-> "", code |-> "",
     called |-> FALSE, calledAuth |-> AuthorityUnknown, calledURL |-> "",
     bodyKind |-> "-", outcome |-> "-", pt |-> Nil]

ReadyCli(authority, identifier, url, code) ==
    [IdleCli EXCEPT !.pc = "ready", !.authority = authority, !.identifier = identifier,
                    !.url = url, !.code = code]

\* what the service can do with a POST to url under context.Background():
\* an empty URL never reaches a service
CliBehaviours(url, authority, identifier) ==
    {rb \in RemoteBehaviours(authorityCodes[authority + 1], identifier, FALSE) :
        url = "" => rb.conn = "fail"}

\* LookupAuthority, performRequest and the report of its result, as both
\* main2 (lines 126-142) and Invoke do them
RunOnce(rec, rb) ==
    LET auth == LookupAuthority(rec.authority)
    IN IF auth = AuthorityUnknown
       THEN [rec EXCEPT !.pc = "done", !.outcome = "fatal: unsupported authority"]
       ELSE LET res == performRequest(rb, rec.url, rec.code, auth, rec.identifier)
                ran == [rec EXCEPT !.pc = "done", !.called = TRUE, !.calledAuth = auth,
                                   !.calledURL = rec.url, !.bodyKind = rb.body.kind]
            IN IF res.err # Nil THEN [ran EXCEPT !.outcome = "fatal: error"]
               ELSE IF res.pt = Nil THEN [ran EXCEPT !.outcome = "Not Found"]
               ELSE [ran EXCEPT !.outcome = "printed", !.pt = res.pt]

Main2Cli ==
    /\ mode = "cli"
    /\ cli.pc = "ready"
    /\ \E rb \in CliBehaviours(cli.url, LookupAuthority(cli.authority), cli.identifier) :
          cli' = RunOnce(cli, rb)
    /\ UNCHANGED <<mode, cacheOn, ttl, fake, endpoint, now, cache, req, pureVars, sdsVars>>

Invoke ==
    /\ mode = "invoke"
    /\ cli.pc = "ready"
    /\ \E rb \in CliBehaviours(cli.url, LookupAuthority(cli.authority), cli.identifier) :
          cli' = RunOnce(cli, rb)
    /\ UNCHANGED <<mode, cacheOn, ttl, fake, endpoint, now, cache, req, pureVars, sdsVars>>

-----------------------------------------------------------------------------
(* The specification of the server and the command line *)

NoInput == [fn |-> "-"]
NoOutput == [fn |-> "-"]

\* a mutant: the cache is built whatever -cache says
Main2Start_AlwaysCache ==
    \E ef \in EndpointInputs, idf \in {""} \cup IdentifierInputs,
       af \in AuthorityInputs \cup {""}, sv \in BOOLEAN,
       cm \in 0..MaxCacheMinutes, fk \in BOOLEAN :
        LET ep == LookupEndpoint(ef)
            m == IF endpointURLs[ep + 1] = "" THEN "fatal"
                 ELSE IF idf # "" THEN "cli"
                 ELSE IF sv THEN "serve" ELSE "usage"
        IN /\ (m = "serve" => ef \in ServeEndpointInputs)
           /\ mode = m
           /\ input = [fn |-> "main2", endpoint |-> ef]
           /\ endpoint = ep
           /\ cacheOn = (m = "serve")
           /\ ttl = (IF m = "serve" THEN cm ELSE 0)
           /\ fake = (m = "serve" /\ fk)
           /\ cli = (IF m = "cli"
                     THEN ReadyCli(af, idf, endpointURLs[ep + 1], endpointCodes[ep + 1])
                     ELSE IdleCli)

\* main2 after flag.Parse: the endpoint is checked, then the command-line lookup
\* runs if -id is given, else the server is built if -serve is given; input keeps
\* the -endpoint flag
Main2Start ==
    \E ef \in EndpointInputs, idf \in {""} \cup IdentifierInputs,
       af \in AuthorityInputs \cup {""}, sv \in BOOLEAN,
       cm \in 0..MaxCacheMinutes, fk \in BOOLEAN :
        LET ep == LookupEndpoint(ef)
            m == IF endpointURLs[ep + 1] = "" THEN "fatal"
                 ELSE IF idf # "" THEN "cli"
                 ELSE IF sv THEN "serve" ELSE "usage"
        IN /\ (m = "serve" => ef \in ServeEndpointInputs)
           /\ mode = m
           /\ input = [fn |-> "main2", endpoint |-> ef]
           /\ endpoint = ep
           /\ cacheOn = (m = "serve" /\ cm # 0)
           /\ ttl = (IF m = "serve" THEN cm ELSE 0)
           /\ fake = (m = "serve" /\ fk)
           /\ cli = (IF m = "cli"
                     THEN ReadyCli(af, idf, endpointURLs[ep + 1], endpointCodes[ep + 1])
                     ELSE IdleCli)

\* a caller of Invoke chooses every argument
InvokeStart ==
    \E ep \in {UnknownEndpoint, DevelopmentEndpoint}, af \in AuthorityInputs \cup {""},
       idf \in {""} \cup IdentifierInputs :
        /\ mode = "invoke"
        /\ input = NoInput
        /\ endpoint = ep
        /\ cacheOn = FALSE /\ ttl = 0 /\ fake = FALSE
        /\ cli = ReadyCli(af, idf, endpointURLs[ep + 1], endpointCodes[ep + 1])

Init ==
    /\ now = 0
    /\ cache = [k \in Keys |-> NoItem]
    /\ req = [r \in Reqs |-> IdleReq]
    /\ output = NoOutput
    /\ SdsNotStarted
    /\ (Main2Start \/ InvokeStart)

Next ==
    \/ \E r \in Reqs, nnn \in NhsNumberInputs, u \in UserInputs :
          Request(r, "nhsnumber", "", nnn, u)
    \/ \E r \in Reqs, a \in AuthorityInputs, i \in IdentifierInputs, u \in UserInputs :
          Request(r, "authority", a, i, u)
    \/ \E r \in Reqs :
          \E rb \in RemoteBehaviours(PassedAuthority(req[r]), req[r].identifier, TRUE) :
             Complete(r, rb)
    \/ \E r \in Reqs : Deliver(r)
    \/ Tick
    \/ Janitor
    \/ Main2Cli
    \/ Invoke

Spec == Init /\ [][Next]_vars

-----------------------------------------------------------------------------
(* Normalisation on its own: ToPatient and parseDate applied to bounded inputs *)

\* all sequences over S of length 0..n
RECURSIVE SeqsUpTo(_, _)
SeqsUpTo(S, n) ==
    IF n = 0 THEN {<<>>}
    ELSE LET shorter == SeqsUpTo(S, n - 1)
         IN shorter \cup {Append(q, x) : q \in {t \in shorter : Len(t) = n - 1}, x \in S}

YearTexts ==
    {<<"0", "0", "0", "0">>, <<"0", "0", "0", "1">>, <<"1", "9", "0", "0">>,
     <<"1", "9", "6", "0">>, <<"2", "0", "1", "9">>, <<"1", "9", "x", "0">>}
MonthTexts ==
    {<<"0", "0">>, <<"0", "1">>, <<"0", "2">>, <<"0", "4">>, <<"1", "2">>, <<"1", "3">>,
     <<"0", "x">>}
DayTexts ==
    {<<"0", "0">>, <<"0", "1">>, <<"2", "8">>, <<"2", "9">>, <<"3", "0">>, <<"3", "1">>,
     <<"3", "2">>, <<" ", "1">>}
TailTexts == {<<>>, <<"0", "0", "0", "0", "0", "0">>, <<"x">>}

\* timestamps: year, month, day and a tail; and every shorter beginning of two of them
DateTexts ==
    {y \o m \o d \o t : y \in YearTexts, m \in MonthTexts, d \in DayTexts, t \in TailTexts}
    \cup {Prefix(<<"1", "9", "6", "0", "0", "1", "0", "1">>, n) : n \in 0..7}
    \cup {Prefix(<<"0", "0", "0", "0", "0", "0", "0", "0">>, n) : n \in 0..7}

SomeDateTexts ==
    {<<>>,
     <<"1", "9", "6", "0", "0", "1", "0", "1", "0", "0", "0", "0", "0", "0">>,
     <<"0", "0", "0", "0", "0", "0", "0", "0">>,
     <<"2", "0", "1", "9", "0", "2", "2", "9">>}

NameEntries ==
    [FN1 : {<<>>, <<"S">>},
     XPN2 : {<<>>, <<" ">>, <<"A">>, <<"A", " ">>},
     XPN3 : {<<>>, <<" ">>, <<"B">>},
     XPN5 : {<<>>, <<"D", "R">>}]

LaterNameEntries ==
    {[FN1 |-> <<"T">>, XPN2 |-> <<"C">>, XPN3 |-> <<>>, XPN5 |-> <<>>],
     [FN1 |-> <<>>, XPN2 |-> <<>>, XPN3 |-> <<>>, XPN5 |-> <<>>]}

NameLists ==
    {<<>>} \cup {<<n>> \o rest : n \in NameEntries, rest \in SeqsUpTo(LaterNameEntries, MaxList - 1)}

IdEntries == [CX1 : {"", "A1", "B2"}, CX4HD1 : {"", "NHS", "140"}]

AnAddress ==
    [SAD1 |-> "59 Robins Hill", XAD2 |-> "Brackla", XAD3 |-> "BRIDGEND", XAD4 |-> "WALES",
     XAD5 |-> "CF31 2PJ", XAD13 |-> <<"2", "0", "1", "9", "0", "1", "0", "1">>, XAD14 |-> <<>>]

\* entries of PID.11: two lines, and validity bounds that are empty, a timestamp,
\* not a date, or the date time.Time reads as zero
AddressEntries ==
    {[AnAddress EXCEPT !.SAD1 = l, !.XAD13 = f, !.XAD14 = t] :
        l \in {"59 Robins Hill", "1 High Street"},
        f \in {<<>>, <<"2", "0", "1", "9", "0", "1", "0", "1", "0", "0", "0", "0", "0", "0">>,
                <<"2", "0", "1", "9", "x">>, <<"0", "0", "0", "1", "0", "1", "0", "1">>},
        t \in {<<>>, <<"2", "0", "2", "0", "0", "2", "0", "2">>}}

APhone == [XTN1 |-> "02920747747", XTN4 |-> "test@test.com", LongName |-> "Work number"]

APatientName == [FN1 |-> <<"S">>, XPN2 |-> <<"A">>, XPN3 |-> <<"B">>, XPN5 |-> <<"D", "R">>]

\* entries of PID.13 and of PID.14: with or without a number, with or without an email
Phone13Entries ==
    [XTN1 : {"", "02920747747"}, XTN4 : {"", "test@test.com"}, LongName : {"Work number"}]
Phone14Entries ==
    [XTN1 : {"", "07700900000"}, XTN4 : {"", "home@test.com"}, LongName : {"Mobile number"}]

\* a response with every field the code reads filled
FullEnvelope ==
    [PID3 |-> <<[CX1 |-> "A1", CX4HD1 |-> "NHS"]>>, PID5 |-> <<APatientName>>,
     PID7TS1 |-> <<"1", "9", "6", "0", "0", "1", "0", "1">>, PID29TS1 |-> <<>>,
     PID8 |-> "F", PID11 |-> <<AnAddress>>, PID13 |-> <<APhone>>, PID14 |-> <<>>,
     PD13XON3 |-> "W95010", PD14XCN1 |-> "G9342400"]

NormEnvelopes ==
    {[base EXCEPT !.PID5 = names] : base \in {ZeroEnvelope, FullEnvelope}, names \in NameLists}
    \cup {[FullEnvelope EXCEPT !.PID5 = names, !.PID3 = ids] :
            names \in {<<>>, <<APatientName>>}, ids \in SeqsUpTo(IdEntries, MaxList)}
    \cup {[FullEnvelope EXCEPT !.PID7TS1 = b, !.PID29TS1 = d] :
            b \in DateTexts, d \in SomeDateTexts}
    \cup {[FullEnvelope EXCEPT !.PID7TS1 = b, !.PID29TS1 = d] :
            b \in SomeDateTexts, d \in DateTexts}
    \cup {[FullEnvelope EXCEPT !.PID13 = t13, !.PID14 = t14] :
            t13 \in SeqsUpTo(Phone13Entries, MaxList), t14 \in SeqsUpTo(Phone14Entries, MaxList)}
    \cup {[FullEnvelope EXCEPT !.PID11 = as] : as \in SeqsUpTo(AddressEntries, MaxList)}

\* the arguments performRequest builds a request from
RequestInputs ==
    [fn : {"NewIdentifierRequest"}, identifier : {"7253698428", "M1"}, authority : Authorities,
     processingID : {"P", "U", "T"}, stamp : {"20201001120000"},
     uuid : {"6ba7b810-9dad-11d1-80b4-00c04fd430c8"}]

\* texts given to LookupAuthority: every code of the table, and texts that are none
AuthorityTexts ==
    {authorityCodes[i] : i \in DOMAIN authorityCodes}
    \cup {"nhs", "Nhs", " NHS", "NHS ", "14", "1400", "0100", "NH", "PI", "ZZZ"}

NormInputs ==
    {[fn |-> "ToPatient", env |-> e] : e \in NormEnvelopes}
    \cup {[fn |-> "parseDate", text |-> t] : t \in DateTexts}
    \cup RequestInputs
    \cup [fn : {"LookupAuthority"}, text : AuthorityTexts]

ApplyToPatient ==
    /\ mode = "normalise"
    /\ input.fn = "ToPatient"
    /\ output = NoOutput
    /\ output' = [fn |-> "ToPatient", res |-> ToPatient(input.env)]
    /\ UNCHANGED <<serverVars, sdsVars, input>>

ApplyParseDate ==
    /\ mode = "normalise"
    /\ input.fn = "parseDate"
    /\ output = NoOutput
    /\ output' = [fn |-> "parseDate", res |-> parseDate(input.text)]
    /\ UNCHANGED <<serverVars, sdsVars, input>>

\* the request data performRequest asks for: sender "221", receiver "100"
ApplyNewIdentifierRequest ==
    /\ mode = "normalise"
    /\ input.fn = "NewIdentifierRequest"
    /\ output = NoOutput
    /\ output' = [fn |-> "NewIdentifierRequest",
                  res |-> NewIdentifierRequest(input.identifier, input.authority, "221", "100",
                                               input.processingID, input.stamp, input.uuid)]
    /\ UNCHANGED <<serverVars, sdsVars, input>>

ApplyLookupAuthority ==
    /\ mode = "normalise"
    /\ input.fn = "LookupAuthority"
    /\ output = NoOutput
    /\ output' = [fn |-> "LookupAuthority", res |-> LookupAuthority(input.text)]
    /\ UNCHANGED <<serverVars, sdsVars, input>>

InitNorm ==
    /\ mode = "normalise"
    /\ cacheOn = FALSE /\ ttl = 0 /\ fake = FALSE
    /\ endpoint = UnknownEndpoint
    /\ now = 0
    /\ cache = [k \in Keys |-> NoItem]
    /\ req = [r \in Reqs |-> IdleReq]
    /\ cli = IdleCli
    /\ input \in NormInputs
    /\ output = NoOutput
    /\ SdsNotStarted

NextNorm ==
    \/ ApplyToPatient \/ ApplyParseDate \/ ApplyNewIdentifierRequest
    \/ ApplyLookupAuthority

SpecNorm == InitNorm /\ [][NextNorm]_vars

-----------------------------------------------------------------------------
(* Package sds: the static role table, the SDS/SNOMED cross map, and the     *)
(* registry of package identifiers they are bound in                        *)

SDSJobRoleNameURI == "https://fhir.nhs.uk/STU3/CodeSystem/CareConnect-SDSJobRoleName-1"

\* the forward cross map, as (code, concept) pairs in the order of the literal
sdsMappingEntries ==
    << <<<<"R", "0", "0", "5", "0">>, 768839008>>,
       <<<<"R", "0", "0", "3", "0">>, 158890004>>,
       <<<<"R", "0", "0", "4", "0">>, 768839008>>,
       <<<<"R", "0", "0", "7", "0">>, 309396002>>,
       <<<<"R", "0", "0", "8", "0">>, 397908005>>,
       <<<<"R", "0", "1", "0", "0">>, 224529009>>,
       <<<<"R", "0", "1", "1", "0">>, 302211009>>,
       <<<<"R", "0", "1", "2", "0">>, 224530004>>,
       <<<<"R", "0", "1", "3", "0">>, 224531000>>,
       <<<<"R", "0", "1", "4", "0">>, 224532007>>,
       <<<<"R", "0", "1", "5", "0">>, 158972004>>,
       <<<<"R", "0", "2", "6", "0">>, 62247001>>,
       <<<<"R", "0", "3", "7", "0">>, 309454000>>,
       <<<<"R", "0", "7", "9", "0">>, 159033005>>,
       <<<<"R", "0", "0", "1", "8">>, 309418004>>,
       <<<<"R", "1", "7", "6", "0">>, 394572006>> >>

\* sdsMapping: a Go map, so a function without an order
sdsMapping ==
    [c \in {sdsMappingEntries[i][1] : i \in DOMAIN sdsMappingEntries} |->
        LET i == CHOOSE k \in DOMAIN sdsMappingEntries : sdsMappingEntries[k][1] = c
        IN sdsMappingEntries[i][2]]

\* sdsData, as the lines strings.Split(sdsData, "\n") cuts it into
sdsData ==
    << <<"R", "0", "0", "1", "0", "\t", "M", "e", "d", "i", "c", "a", "l", " ", "D", "i", "r", "e", "c", "t", "o", "r">>,
      <<"R", "0", "0", "2", "0", "\t", "C", "l", "i", "n", "i", "c", "a", "l", " ", "D", "i", "r", "e", "c", "t", "o", "r", " ", "-", " ", "M", "e", "d", "i", "c", "a", "l">>,
      <<"R", "0", "2", "1", "0", "\t", "D", "i", "r", "e", "c", "t", "o", "r", " ", "o", "f", " ", "P", "u", "b", "l", "i", "c", " ", "H", "e", "a", "l", "t", "h">>,
      <<"R", "0", "0", "3", "0", "\t", "P", "r", "o", "f", "e", "s", "s", "o", "r">>,
      <<"R", "0", "0", "4", "0", "\t", "S", "e", "n", "i", "o", "r", " ", "L", "e", "c", "t", "u", "r", "e", "r">>,
      <<"R", "0", "0", "5", "0", "\t", "C", "o", "n", "s", "u", "l", "t", "a", "n", "t">>,
      <<"R", "0", "0", "6", "0", "\t", "S", "p", "e", "c", "i", "a", "l", " ", "S", "a", "l", "a", "r", "y", " ", "S", "c", "a", "l", "e", " ", "i", "n", " ", "P", "u", "b", "l", "i", "c", " ", "H", "e", "a", "l", "t", "h", " ", "M", "e", "d", "i", "c", "i", "n", "e">>,
      <<"R", "0", "0", "7", "0", "\t", "A", "s", "s", "o", "c", "i", "a", "t", "e", " ", "S", "p", "e", "c", "i", "a", "l", "i", "s", "t">>,
      <<"R", "0", "0", "8", "0", "\t", "S", "t", "a", "f", "f", " ", "G", "r", "a", "d", "e">>,
      <<"R", "0", "0", "9", "0", "\t", "H", "o", "s", "p", "i", "t", "a", "l", " ", "P", "r", "a", "c", "t", "i", "t", "i", "o", "n", "e", "r">>,
      <<"R", "0", "1", "0", "0", "\t", "C", "l", "i", "n", "i", "c", "a", "l", " ", "A", "s", "s", "i", "s", "t", "a", "n", "t">>,
      <<"R", "0", "1", "1", "0", "\t", "S", "p", "e", "c", "i", "a", "l", "i", "s", "t", " ", "R", "e", "g", "i", "s", "t", "r", "a", "r">>,
      <<"R", "0", "1", "2", "0", "\t", "S", "e", "n", "i", "o", "r", " ", "R", "e", "g", "i", "s", "t", "r", "a", "r", " ", "(", "C", "l", "o", "s", "e", "d", ")">>,
      <<"R", "0", "1", "3", "0", "\t", "R", "e", "g", "i", "s", "t", "r", "a", "r", " ", "(", "C", "l", "o", "s", "e", "d", ")">>,
      <<"R", "0", "1", "4", "0", "\t", "S", "e", "n", "i", "o", "r", " ", "H", "o", "u", "s", "e", " ", "O", "f", "f", "i", "c", "e", "r">>,
      <<"R", "0", "1", "5", "0", "\t", "H", "o", "u", "s", "e", " ", "O", "f", "f", "i", "c", "e", "r", " ", "-", " ", "P", "r", "e", " ", "R", "e", "g", "i", "s", "t", "r", "a", "t", "i", "o", "n">>,
      <<"R", "0", "1", "6", "0", "\t", "H", "o", "u", "s", "e", " ", "O", "f", "f", "i", "c", "e", "r", " ", "-", " ", "P", "o", "s", "t", " ", "R", "e", "g", "i", "s", "t", "r", "a", "t", "i", "o", "n">>,
      <<"R", "0", "1", "7", "0", "\t", "T", "r", "u", "s", "t", " ", "G", "r", "a", "d", "e", " ", "D", "o", "c", "t", "o", "r", " ", "-", " ", "H", "o", "u", "s", "e", " ", "O", "f", "f", "i", "c", "e", "r", " ", "l", "e", "v", "e", "l">>,
      <<"R", "0", "1", "8", "0", "\t", "T", "r", "u", "s", "t", " ", "G", "r", "a", "d", "e", " ", "D", "o", "c", "t", "o", "r", " ", "-", " ", "S", "H", "O", " ", "l", "e", "v", "e", "l">>,
      <<"R", "0", "1", "9", "0", "\t", "T", "r", "u", "s", "t", " ", "G", "r", "a", "d", "e", " ", "D", "o", "c", "t", "o", "r", " ", "-", " ", "S", "p", "e", "c", "i", "a", "l", "i", "s", "t", " ", "R", "e", "g", "i", "s", "t", "r", "a", "r", " ", "l", "e", "v", "e", "l">>,
      <<"R", "0", "2", "0", "0", "\t", "T", "r", "u", "s", "t", " ", "G", "r", "a", "d", "e", " ", "D", "o", "c", "t", "o", "r", " ", "-", " ", "C", "a", "r", "e", "e", "r", " ", "G", "r", "a", "d", "e", " ", "l", "e", "v", "e", "l">>,
      <<"R", "0", "2", "6", "0", "\t", "G", "e", "n", "e", "r", "a", "l", " ", "M", "e", "d", "i", "c", "a", "l", " ", "P", "r", "a", "c", "t", "i", "t", "i", "o", "n", "e", "r">>,
      <<"R", "0", "2", "7", "0", "\t", "S", "a", "l", "a", "r", "i", "e", "d", " ", "G", "e", "n", "e", "r", "a", "l", " ", "P", "r", "a", "c", "t", "i", "t", "i", "o", "n", "e", "r">>,
      <<"R", "1", "9", "8", "1", "\t", "P", "s", "y", "c", "h", "i", "a", "t", "r", "i", "s", "t">>,
      <<"R", "1", "9", "8", "4", "\t", "H", "e", "a", "l", "t", "h", " ", "R", "e", "c", "o", "r", "d", "s", " ", "A", "d", "m", "i", "n", "i", "s", "t", "r", "a", "t", "o", "r">>,
      <<"R", "6", "2", "0", "0", "\t", "G", "P", " ", "R", "e", "g", "i", "s", "t", "r", "a", "r">>,
      <<"R", "6", "3", "0", "0", "\t", "S", "e", "s", "s", "i", "o", "n", "a", "l", " ", "G", "P">>,
      <<"R", "7", "1", "4", "0", "\t", "O", "D", "P">>,
      <<"R", "7", "1", "5", "0", "\t", "S", "O", "D", "P">>,
      <<"R", "9", "1", "0", "0", "\t", "A", "&", "E", " ", "S", "t", "a", "f", "f", " ", "N", "u", "r", "s", "e", " ", "(", "T", "e", "m", "p", "o", "r", "a", "r", "y", ")", " ", "L", "o", "n", "d", "o", "n", " ", "C", "l", "u", "s", "t", "e", "r", " ", "O", "n", "l", "y">>,
      <<"R", "9", "1", "0", "1", "\t", "A", "&", "E", " ", "M", "a", "n", "a", "g", "e", "r", " ", "(", "T", "e", "m", "p", "o", "r", "a", "r", "y", ")", " ", "L", "o", "n", "d", "o", "n", " ", "C", "l", "u", "s", "t", "e", "r", " ", "O", "n", "l", "y">>,
      <<"R", "9", "1", "0", "2", "\t", "A", "&", "E", " ", "D", "o", "c", "t", "o", "r", " ", "(", "T", "e", "m", "p", "o", "r", "a", "r", "y", ")", " ", "L", "o", "n", "d", "o", "n", " ", "C", "l", "u", "s", "t", "e", "r", " ", "o", "n", "l", "y">>,
      <<"R", "9", "1", "0", "3", "\t", "A", "&", "E", " ", "S", "t", "u", "d", "e", "n", "t", " ", "(", "T", "e", "m", "p", "o", "r", "a", "r", "y", ")", " ", "L", "o", "n", "d", "o", "n", " ", "C", "l", "u", "s", "t", "e", "r", " ", "O", "n", "l", "y">>,
      <<"R", "9", "1", "0", "4", "\t", "A", "&", "E", " ", "C", "l", "e", "r", "k", " ", "(", "T", "e", "m", "p", "o", "r", "a", "r", "y", ")", " ", "L", "o", "n", "d", "o", "n", " ", "C", "l", "u", "s", "t", "e", "r", " ", "O", "n", "l", "y">>,
      <<"R", "0", "2", "1", "5", "\t", "A", "s", "s", "i", "s", "t", "a", "n", "t", " ", "C", "l", "i", "n", "i", "c", "a", "l", " ", "M", "e", "d", "i", "c", "a", "l", " ", "O", "f", "f", "i", "c", "e", "r">>,
      <<"R", "0", "2", "2", "0", "\t", "C", "l", "i", "n", "i", "c", "a", "l", " ", "M", "e", "d", "i", "c", "a", "l", " ", "O", "f", "f", "i", "c", "e", "r">>,
      <<"R", "0", "2", "3", "0", "\t", "S", "e", "n", "i", "o", "r", " ", "C", "l", "i", "n", "i", "c", "a", "l", " ", "M", "e", "d", "i", "c", "a", "l", " ", "O", "f", "f", "i", "c", "e", "r">>,
      <<"R", "0", "2", "4", "0", "\t", "O", "t", "h", "e", "r", " ", "C", "o", "m", "m", "u", "n", "i", "t", "y", " ", "H", "e", "a", "l", "t", "h", " ", "S", "e", "r", "v", "i", "c", "e">>,
      <<"R", "0", "2", "4", "3", "\t", "O", "t", "h", "e", "r", " ", "C", "o", "m", "m", "u", "n", "i", "t", "y", " ", "H", "e", "a", "l", "t", "h", " ", "S", "e", "r", "v", "i", "c", "e", " ", "-", " ", "S", "o", "c", "i", "a", "l", " ", "C", "a", "r", "e", " ", "W", "o", "r", "k", "e", "r">>,
      <<"R", "0", "2", "4", "7", "\t", "O", "t", "h", "e", "r", " ", "C", "o", "m", "m", "u", "n", "i", "t", "y", " ", "H", "e", "a", "l", "t", "h", " ", "S", "e", "r", "v", "i", "c", "e", " ", "-", " ", "A", "d", "m", "i", "n", " ", "C", "l", "e", "r", "k">>,
      <<"R", "0", "0", "5", "5", "\t", "D", "e", "n", "t", "a", "l", " ", "S", "u", "r", "g", "e", "o", "n", " ", "a", "c", "t", "i", "n", "g", " ", "a", "s", " ", "H", "o", "s", "p", "i", "t", "a", "l", " ", "C", "o", "n", "s", "u", "l", "t", "a", "n", "t">>,
      <<"R", "0", "2", "5", "0", "\t", "G", "e", "n", "e", "r", "a", "l", " ", "D", "e", "n", "t", "a", "l", " ", "P", "r", "a", "c", "t", "i", "t", "i", "o", "n", "e", "r">>,
      <<"R", "0", "2", "8", "0", "\t", "R", "e", "g", "i", "o", "n", "a", "l", " ", "D", "e", "n", "t", "a", "l", " ", "O", "f", "f", "i", "c", "e", "r">>,
      <<"R", "0", "2", "9", "0", "\t", "D", "e", "n", "t", "a", "l", " ", "C", "l", "i", "n", "i", "c", "a", "l", " ", "D", "i", "r", "e", "c", "t", "o", "r", " ", "-", " ", "D", "e", "n", "t", "a", "l">>,
      <<"R", "0", "2", "9", "5", "\t", "D", "e", "n", "t", "a", "l", " ", "A", "s", "s", "i", "s", "t", "a", "n", "t", " ", "C", "l", "i", "n", "i", "c", "a", "l", " ", "D", "i", "r", "e", "c", "t", "o", "r">>,
      <<"R", "0", "3", "0", "0", "\t", "D", "e", "n", "t", "a", "l", " ", "O", "f", "f", "i", "c", "e", "r">>,
      <<"R", "0", "3", "1", "0", "\t", "S", "e", "n", "i", "o", "r", " ", "D", "e", "n", "t", "a", "l", " ", "O", "f", "f", "i", "c", "e", "r">>,
      <<"R", "0", "3", "2", "0", "\t", "S", "a", "l", "a", "r", "i", "e", "d", " ", "D", "e", "n", "t", "a", "l", " ", "P", "r", "a", "c", "t", "i", "t", "i", "o", "n", "e", "r">>,
      <<"R", "0", "0", "0", "6", "\t", "S", "t", "u", "d", "e", "n", "t", " ", "C", "o", "m", "m", "u", "n", "i", "t", "y", " ", "P", "r", "a", "c", "t", "i", "t", "i", "o", "n", "e", "r">>,
      <<"R", "0", "3", "3", "0", "\t", "S", "t", "u", "d", "e", "n", "t", " ", "N", "u", "r", "s", "e", " ", "-", " ", "A", "d", "u", "l", "t", " ", "B", "r", "a", "n", "c", "h">>,
      <<"R", "0", "3", "4", "0", "\t", "S", "t", "u", "d", "e", "n", "t", " ", "N", "u", "r", "s", "e", " ", "-", " ", "C", "h", "i", "l", "d", " ", "B", "r", "a", "n", "c", "h">>,
      <<"R", "0", "3", "5", "0", "\t", "S", "t", "u", "d", "e", "n", "t", " ", "N", "u", "r", "s", "e", " ", "-", " ", "M", "e", "n", "t", "a", "l", " ", "H", "e", "a", "l", "t", "h", " ", "B", "r", "a", "n", "c", "h">>,
      <<"R", "0", "3", "6", "0", "\t", "S", "t", "u", "d", "e", "n", "t", " ", "N", "u", "r", "s", "e", " ", "-", " ", "L", "e", "a", "r", "n", "i", "n", "g", " ", "D", "i", "s", "a", "b", "i", "l", "i", "t", "i", "e", "s", " ", "B", "r", "a", "n", "c", "h">>,
      <<"R", "0", "3", "7", "0", "\t", "S", "t", "u", "d", "e", "n", "t", " ", "M", "i", "d", "w", "i", "f", "e">>,
      <<"R", "0", "3", "8", "0", "\t", "S", "t", "u", "d", "e", "n", "t", " ", "H", "e", "a", "l", "t", "h", " ", "V", "i", "s", "i", "t", "o", "r">>,
      <<"R", "0", "3", "9", "0", "\t", "S", "t", "u", "d", "e", "n", "t", " ", "D", "i", "s", "t", "r", "i", "c", "t", " ", "N", "u", "r", "s", "e">>,
      <<"R", "0", "4", "0", "0", "\t", "S", "t", "u", "d", "e", "n", "t", " ", "S", "c", "h", "o", "o", "l", " ", "N", "u", "r", "s", "e">>,
      <<"R", "0", "4", "1", "0", "\t", "S", "t", "u", "d", "e", "n", "t", " ", "P", "r", "a", "c", "t", "i", "c", "e", " ", "N", "u", "r", "s", "e">>,
      <<"R", "0", "4", "2", "0", "\t", "S", "t", "u", "d", "e", "n", "t", " ", "O", "c", "c", "u", "p", "a", "t", "i", "o", "n", "a", "l", " ", "H", "e", "a", "l", "t", "h", " ", "N", "u", "r", "s", "e">>,
      <<"R", "0", "4", "3", "0", "\t", "S", "t", "u", "d", "e", "n", "t", " ", "C", "o", "m", "m", "u", "n", "i", "t", "y", " ", "P", "a", "e", "d", "i", "a", "t", "r", "i", "c", " ", "N", "u", "r", "s", "e">>,
      <<"R", "0", "4", "4", "0", "\t", "S", "t", "u", "d", "e", "n", "t", " ", "C", "o", "m", "m", "u", "n", "i", "t", "y", " ", "M", "e", "n", "t", "a", "l", " ", "H", "e", "a", "l", "t", "h", " ", "N", "u", "r", "s", "e">>,
      <<"R", "0", "4", "5", "0", "\t", "S", "t", "u", "d", "e", "n", "t", " ", "C", "o", "m", "m", "u", "n", "i", "t", "y", " ", "L", "e", "a", "r", "n", "i", "n", "g", " ", "D", "i", "s", "a", "b", "i", "l", "i", "t", "i", "e", "s", " ", "N", "u", "r", "s", "e">>,
      <<"R", "0", "4", "6", "0", "\t", "S", "t", "u", "d", "e", "n", "t", " ", "C", "h", "i", "r", "o", "p", "o", "d", "i", "s", "t">>,
      <<"R", "0", "4", "7", "0", "\t", "S", "t", "u", "d", "e", "n", "t", " ", "D", "i", "e", "t", "i", "t", "i", "a", "n">>,
      <<"R", "0", "4", "8", "0", "\t", "S", "t", "u", "d", "e", "n", "t", " ", "O", "c", "c", "u", "p", "a", "t", "i", "o", "n", "a", "l", " ", "T", "h", "e", "r", "a", "p", "i", "s", "t">>,
      <<"R", "0", "4", "9", "0", "\t", "S", "t", "u", "d", "e", "n", "t", " ", "O", "r", "t", "h", "o", "p", "t", "i", "s", "t">>,
      <<"R", "0", "5", "0", "0", "\t", "S", "t", "u", "d", "e", "n", "t", " ", "P", "h", "y", "s", "i", "o", "t", "h", "e", "r", "a", "p", "i", "s", "t">>,
      <<"R", "0", "5", "1", "0", "\t", "S", "t", "u", "d", "e", "n", "t", " ", "R", "a", "d", "i", "o", "g", "r", "a", "p", "h", "e", "r", " ", "-", " ", "D", "i", "a", "g", "n", "o", "s", "t", "i", "c">>,
      <<"R", "0", "5", "2", "0", "\t", "S", "t", "u", "d", "e", "n", "t", " ", "R", "a", "d", "i", "o", "g", "r", "a", "p", "h", "e", "r", " ", "-", " ", "T", "h", "e", "r", "a", "p", "e", "u", "t", "i", "c">>,
      <<"R", "0", "5", "3", "0", "\t", "S", "t", "u", "d", "e", "n", "t", " ", "S", "p", "e", "e", "c", "h", " ", "&", " ", "L", "a", "n", "g", "u", "a", "g", "e", " ", "T", "h", "e", "r", "a", "p", "i", "s", "t">>,
      <<"R", "0", "5", "4", "0", "\t", "A", "r", "t", ",", " ", "M", "u", "s", "i", "c", " ", "&", " ", "D", "r", "a", "m", "a", " ", "S", "t", "u", "d", "e", "n", "t">>,
      <<"R", "0", "5", "5", "0", "\t", "S", "t", "u", "d", "e", "n", "t", " ", "P", "s", "y", "c", "h", "o", "t", "h", "e", "r", "a", "p", "i", "s", "t">>,
      <<"R", "6", "4", "0", "0", "\t", "M", "e", "d", "i", "c", "a", "l", " ", "S", "t", "u", "d", "e", "n", "t">>,
      <<"R", "0", "5", "6", "0", "\t", "D", "i", "r", "e", "c", "t", "o", "r", " ", "o", "f", " ", "N", "u", "r", "s", "i", "n", "g">>,
      <<"R", "0", "5", "8", "0", "\t", "N", "u", "r", "s", "e", " ", "M", "a", "n", "a", "g", "e", "r">>,
      <<"R", "0", "6", "1", "0", "\t", "S", "i", "s", "t", "e", "r", "/", "C", "h", "a", "r", "g", "e", " ", "N", "u", "r", "s", "e">>,
      <<"R", "1", "9", "7", "6", "\t", "C", "o", "m", "m", "u", "n", "i", "t", "y", " ", "T", "e", "a", "m", " ", "M", "a", "n", "a", "g", "e", "r">>,
      <<"R", "0", "5", "7", "0", "\t", "N", "u", "r", "s", "e", " ", "C", "o", "n", "s", "u", "l", "t", "a", "n", "t">>,
      <<"R", "0", "6", "0", "0", "\t", "S", "p", "e", "c", "i", "a", "l", "i", "s", "t", " ", "N", "u", "r", "s", "e", " ", "P", "r", "a", "c", "t", "i", "t", "i", "o", "n", "e", "r">>,
      <<"R", "0", "6", "2", "0", "\t", "S", "t", "a", "f", "f", " ", "N", "u", "r", "s", "e">>,
      <<"R", "0", "6", "3", "0", "\t", "E", "n", "r", "o", "l", "l", "e", "d", " ", "N", "u", "r", "s", "e">>,
      <<"R", "0", "6", "9", "0", "\t", "C", "o", "m", "m", "u", "n", "i", "t", "y", " ", "P", "r", "a", "c", "t", "i", "t", "i", "o", "n", "e", "r">>,
      <<"R", "0", "7", "0", "0", "\t", "C", "o", "m", "m", "u", "n", "i", "t", "y", " ", "N", "u", "r", "s", "e">>,
      <<"R", "1", "9", "7", "4", "\t", "C", "o", "m", "m", "u", "n", "i", "t", "y", " ", "L", "e", "a", "r", "n", "i", "n", "g", " ", "D", "i", "s", "a", "b", "i", "l", "i", "t", "i", "e", "s", " ", "N", "u", "r", "s", "e">>,
      <<"R", "1", "9", "7", "5", "\t", "C", "o", "m", "m", "u", "n", "i", "t", "y", " ", "M", "e", "n", "t", "a", "l", " ", "H", "e", "a", "l", "t", "h", " ", "N", "u", "r", "s", "e">>,
      <<"R", "0", "5", "9", "0", "\t", "M", "o", "d", "e", "r", "n", " ", "M", "a", "t", "r", "o", "n">>,
      <<"R", "1", "9", "7", "2", "\t", "C", "l", "i", "n", "i", "c", "a", "l", " ", "T", "e", "a", "m", " ", "M", "a", "n", "a", "g", "e", "r">>,
      <<"R", "0", "6", "4", "0", "\t", "M", "i", "d", "w", "i", "f", "e", " ", "-", " ", "C", "o", "n", "s", "u", "l", "t", "a", "n", "t">>,
      <<"R", "0", "6", "5", "0", "\t", "M", "i", "d", "w", "i", "f", "e", " ", "-", " ", "S", "p", "e", "c", "i", "a", "l", "i", "s", "t", " ", "P", "r", "a", "c", "t", "i", "t", "i", "o", "n", "e", "r">>,
      <<"R", "0", "6", "6", "0", "\t", "M", "i", "d", "w", "i", "f", "e", " ", "-", " ", "M", "a", "n", "a", "g", "e", "r">>,
      <<"R", "0", "6", "7", "0", "\t", "M", "i", "d", "w", "i", "f", "e", " ", "-", " ", "S", "i", "s", "t", "e", "r", "/", "C", "h", "a", "r", "g", "e", " ", "N", "u", "r", "s", "e">>,
      <<"R", "0", "6", "8", "0", "\t", "M", "i", "d", "w", "i", "f", "e">>,
      <<"R", "0", "0", "1", "8", "\t", "A", "u", "d", "i", "o", "l", "o", "g", "i", "s", "t">>,
      <<"R", "0", "7", "5", "0", "\t", "C", "h", "i", "r", "o", "p", "o", "d", "i", "s", "t", "/", "P", "o", "d", "i", "a", "t", "r", "i", "s", "t">>,
      <<"R", "0", "7", "6", "0", "\t", "C", "h", "i", "r", "o", "p", "o", "d", "i", "s", "t", "/", "P", "o", "d", "i", "a", "t", "r", "i", "s", "t", " ", "C", "o", "n", "s", "u", "l", "t", "a", "n", "t">>,
      <<"R", "0", "7", "7", "0", "\t", "C", "h", "i", "r", "o", "p", "o", "d", "i", "s", "t", "/", "P", "o", "d", "i", "a", "t", "r", "i", "s", "t", " ", "M", "a", "n", "a", "g", "e", "r">>,
      <<"R", "0", "7", "8", "0", "\t", "C", "h", "i", "r", "o", "p", "o", "d", "i", "s", "t", "/", "P", "o", "d", "i", "a", "t", "r", "i", "s", "t", " ", "S", "p", "e", "c", "i", "a", "l", "i", "s", "t", " ", "P", "r", "a", "c", "t", "i", "t", "i", "o", "n", "e", "r">>,
      <<"R", "0", "7", "9", "0", "\t", "D", "i", "e", "t", "i", "t", "i", "a", "n">>,
      <<"R", "0", "8", "0", "0", "\t", "D", "i", "e", "t", "i", "t", "i", "a", "n", " ", "C", "o", "n", "s", "u", "l", "t", "a", "n", "t">>,
      <<"R", "0", "8", "1", "0", "\t", "D", "i", "e", "t", "i", "t", "i", "a", "n", " ", "M", "a", "n", "a", "g", "e", "r">>,
      <<"R", "0", "8", "2", "0", "\t", "D", "i", "e", "t", "i", "t", "i", "a", "n", " ", "S", "p", "e", "c", "i", "a", "l", "i", "s", "t", " ", "P", "r", "a", "c", "t", "i", "t", "i", "o", "n", "e", "r">>,
      <<"R", "0", "9", "5", "0", "\t", "O", "c", "c", "u", "p", "a", "t", "i", "o", "n", "a", "l", " ", "T", "h", "e", "r", "a", "p", "i", "s", "t">>,
      <<"R", "0", "9", "6", "0", "\t", "O", "c", "c", "u", "p", "a", "t", "i", "o", "n", "a", "l", " ", "T", "h", "e", "r", "a", "p", "i", "s", "t", " ", "C", "o", "n", "s", "u", "l", "t", "a", "n", "t">>,
      <<"R", "0", "9", "7", "0", "\t", "O", "c", "c", "u", "p", "a", "t", "i", "o", "n", "a", "l", " ", "T", "h", "e", "r", "a", "p", "i", "s", "t", " ", "M", "a", "n", "a", "g", "e", "r">>,
      <<"R", "0", "9", "8", "0", "\t", "O", "c", "c", "u", "p", "a", "t", "i", "o", "n", "a", "l", " ", "T", "h", "e", "r", "a", "p", "y", " ", "S", "p", "e", "c", "i", "a", "l", "i", "s", "t", " ", "P", "r", "a", "c", "t", "i", "t", "i", "o", "n", "e", "r">>,
      <<"R", "0", "9", "9", "0", "\t", "O", "r", "t", "h", "o", "p", "t", "i", "s", "t">>,
      <<"R", "1", "0", "0", "0", "\t", "O", "r", "t", "h", "o", "p", "t", "i", "s", "t", " ", "C", "o", "n", "s", "u", "l", "t", "a", "n", "t">>,
      <<"R", "1", "0", "1", "0", "\t", "O", "r", "t", "h", "o", "p", "t", "i", "s", "t", " ", "M", "a", "n", "a", "g", "e", "r">>,
      <<"R", "1", "0", "2", "0", "\t", "O", "r", "t", "h", "o", "p", "t", "i", "s", "t", " ", "S", "p", "e", "c", "i", "a", "l", "i", "s", "t", " ", "P", "r", "a", "c", "t", "i", "t", "i", "o", "n", "e", "r">>,
      <<"R", "1", "1", "1", "0", "\t", "P", "h", "y", "s", "i", "o", "t", "h", "e", "r", "a", "p", "i", "s", "t">>,
      <<"R", "1", "1", "2", "0", "\t", "P", "h", "y", "s", "i", "o", "t", "h", "e", "r", "a", "p", "i", "s", "t", " ", "C", "o", "n", "s", "u", "l", "t", "a", "n", "t">>,
      <<"R", "1", "1", "3", "0", "\t", "P", "h", "y", "s", "i", "o", "t", "h", "e", "r", "a", "p", "i", "s", "t", " ", "M", "a", "n", "a", "g", "e", "r">>,
      <<"R", "1", "1", "4", "0", "\t", "P", "h", "y", "s", "i", "o", "t", "h", "e", "r", "a", "p", "i", "s", "t", " ", "S", "p", "e", "c", "i", "a", "l", "i", "s", "t", " ", "P", "r", "a", "c", "t", "i", "t", "i", "o", "n", "e", "r">>,
      <<"R", "1", "0", "7", "0", "\t", "P", "a", "r", "a", "m", "e", "d", "i", "c">>,
      <<"R", "1", "0", "8", "0", "\t", "P", "a", "r", "a", "m", "e", "d", "i", "c", " ", "C", "o", "n", "s", "u", "l", "t", "a", "n", "t">>,
      <<"R", "1", "0", "9", "0", "\t", "P", "a", "r", "a", "m", "e", "d", "i", "c", " ", "M", "a", "n", "a", "g", "e", "r">>,
      <<"R", "1", "1", "0", "0", "\t", "P", "a", "r", "a", "m", "e", "d", "i", "c", " ", "S", "p", "e", "c", "i", "a", "l", "i", "s", "t", " ", "P", "r", "a", "c", "t", "i", "t", "i", "o", "n", "e", "r">>,
      <<"R", "0", "0", "0", "3", "\t", "C", "l", "i", "n", "i", "c", "a", "l", " ", "A", "p", "p", "l", "i", "c", "a", "t", "i", "o", "n", " ", "A", "d", "m", "i", "n", "i", "s", "t", "r", "a", "t", "o", "r">>,
      <<"R", "0", "0", "1", "2", "\t", "R", "a", "d", "i", "o", "g", "r", "a", "p", "h", "e", "r">>,
      <<"R", "0", "0", "1", "3", "\t", "S", "t", "u", "d", "e", "n", "t", " ", "R", "a", "d", "i", "o", "g", "r", "a", "p", "h", "e", "r">>,
      <<"R", "0", "0", "1", "4", "\t", "R", "a", "d", "i", "o", "l", "o", "g", "i", "s", "t">>,
      <<"R", "0", "0", "1", "5", "\t", "P", "A", "C", "S", " ", "A", "d", "m", "i", "n", "i", "s", "t", "r", "a", "t", "o", "r">>,
      <<"R", "0", "0", "1", "6", "\t", "R", "e", "p", "o", "r", "t", "i", "n", "g", " ", "R", "a", "d", "i", "o", "g", "r", "a", "p", "h", "e", "r">>,
      <<"R", "0", "0", "1", "7", "\t", "A", "s", "s", "i", "s", "t", "a", "n", "t", " ", "P", "r", "a", "c", "t", "i", "t", "i", "o", "n", "e", "r">>,
      <<"R", "1", "1", "9", "0", "\t", "R", "a", "d", "i", "o", "g", "r", "a", "p", "h", "e", "r", " ", "-", " ", "D", "i", "a", "g", "n", "o", "s", "t", "i", "c">>,
      <<"R", "1", "2", "0", "0", "\t", "R", "a", "d", "i", "o", "g", "r", "a", "p", "h", "e", "r", " ", "-", " ", "D", "i", "a", "g", "n", "o", "s", "t", "i", "c", ",", " ", "C", "o", "n", "s", "u", "l", "t", "a", "n", "t">>,
      <<"R", "1", "2", "1", "0", "\t", "R", "a", "d", "i", "o", "g", "r", "a", "p", "h", "e", "r", " ", "-", " ", "D", "i", "a", "g", "n", "o", "s", "t", "i", "c", ",", " ", "M", "a", "n", "a", "g", "e", "r">>,
      <<"R", "1", "2", "2", "0", "\t", "R", "a", "d", "i", "o", "g", "r", "a", "p", "h", "e", "r", " ", "-", " ", "D", "i", "a", "g", "n", "o", "s", "t", "i", "c", ",", " ", "S", "p", "e", "c", "i", "a", "l", "i", "s", "t", " ", "P", "r", "a", "c", "t", "i", "t", "i", "o", "n", "e", "r">>,
      <<"R", "1", "2", "3", "0", "\t", "R", "a", "d", "i", "o", "g", "r", "a", "p", "h", "e", "r", " ", "-", " ", "T", "h", "e", "r", "a", "p", "e", "u", "t", "i", "c">>,
      <<"R", "1", "2", "4", "0", "\t", "R", "a", "d", "i", "o", "g", "r", "a", "p", "h", "e", "r", " ", "-", " ", "T", "h", "e", "r", "a", "p", "e", "u", "t", "i", "c", ",", " ", "C", "o", "n", "s", "u", "l", "t", "a", "n", "t">>,
      <<"R", "1", "2", "5", "0", "\t", "R", "a", "d", "i", "o", "g", "r", "a", "p", "h", "e", "r", " ", "-", " ", "T", "h", "e", "r", "a", "p", "e", "u", "t", "i", "c", ",", " ", "M", "a", "n", "a", "g", "e", "r">>,
      <<"R", "1", "2", "6", "0", "\t", "R", "a", "d", "i", "o", "g", "r", "a", "p", "h", "e", "r", " ", "-", " ", "T", "h", "e", "r", "a", "p", "e", "u", "t", "i", "c", ",", " ", "S", "p", "e", "c", "i", "a", "l", "i", "s", "t", " ", "P", "r", "a", "c", "t", "i", "t", "i", "o", "n", "e", "r">>,
      <<"R", "1", "0", "3", "0", "\t", "O", "r", "t", "h", "o", "t", "i", "s", "t">>,
      <<"R", "1", "0", "4", "0", "\t", "O", "r", "t", "h", "o", "t", "i", "s", "t", " ", "C", "o", "n", "s", "u", "l", "t", "a", "n", "t">>,
      <<"R", "1", "0", "5", "0", "\t", "O", "r", "t", "h", "o", "t", "i", "s", "t", " ", "M", "a", "n", "a", "g", "e", "r">>,
      <<"R", "1", "0", "6", "0", "\t", "O", "r", "t", "h", "o", "t", "i", "s", "t", " ", "S", "p", "e", "c", "i", "a", "l", "i", "s", "t", " ", "P", "r", "a", "c", "t", "i", "t", "i", "o", "n", "e", "r">>,
      <<"R", "1", "1", "5", "0", "\t", "P", "r", "o", "s", "t", "h", "e", "t", "i", "s", "t">>,
      <<"R", "1", "1", "6", "0", "\t", "P", "r", "o", "s", "t", "h", "e", "t", "i", "s", "t", " ", "C", "o", "n", "s", "u", "l", "t", "a", "n", "t">>,
      <<"R", "1", "1", "7", "0", "\t", "P", "r", "o", "s", "t", "h", "e", "t", "i", "s", "t", " ", "M", "a", "n", "a", "g", "e", "r">>,
      <<"R", "1", "1", "8", "0", "\t", "P", "r", "o", "s", "t", "h", "e", "t", "i", "s", "t", " ", "S", "p", "e", "c", "i", "a", "l", "i", "s", "t", " ", "P", "r", "a", "c", "t", "i", "t", "i", "o", "n", "e", "r">>,
      <<"R", "0", "7", "1", "0", "\t", "A", "r", "t", " ", "T", "h", "e", "r", "a", "p", "i", "s", "t">>,
      <<"R", "0", "7", "2", "0", "\t", "A", "r", "t", " ", "T", "h", "e", "r", "a", "p", "i", "s", "t", " ", "C", "o", "n", "s", "u", "l", "t", "a", "n", "t">>,
      <<"R", "0", "7", "3", "0", "\t", "A", "r", "t", " ", "T", "h", "e", "r", "a", "p", "i", "s", "t", " ", "M", "a", "n", "a", "g", "e", "r">>,
      <<"R", "0", "7", "4", "0", "\t", "A", "r", "t", " ", "T", "h", "e", "r", "a", "p", "i", "s", "t", " ", "S", "p", "e", "c", "i", "a", "l", "i", "s", "t", " ", "P", "r", "a", "c", "t", "i", "t", "i", "o", "n", "e", "r">>,
      <<"R", "0", "8", "3", "0", "\t", "D", "r", "a", "m", "a", " ", "T", "h", "e", "r", "a", "p", "i", "s", "t">>,
      <<"R", "0", "8", "4", "0", "\t", "D", "r", "a", "m", "a", " ", "T", "h", "e", "r", "a", "p", "i", "s", "t", " ", "C", "o", "n", "s", "u", "l", "t", "a", "n", "t">>,
      <<"R", "0", "8", "5", "0", "\t", "D", "r", "a", "m", "a", " ", "T", "h", "e", "r", "a", "p", "i", "s", "t", " ", "M", "a", "n", "a", "g", "e", "r">>,
      <<"R", "0", "8", "6", "0", "\t", "D", "r", "a", "m", "a", " ", "T", "h", "e", "r", "a", "p", "i", "s", "t", " ", "S", "p", "e", "c", "i", "a", "l", "i", "s", "t", " ", "P", "r", "a", "c", "t", "i", "t", "i", "o", "n", "e", "r">>,
      <<"R", "0", "8", "7", "0", "\t", "M", "u", "l", "t", "i", " ", "T", "h", "e", "r", "a", "p", "i", "s", "t">>,
      <<"R", "0", "8", "8", "0", "\t", "M", "u", "l", "t", "i", " ", "T", "h", "e", "r", "a", "p", "i", "s", "t", " ", "C", "o", "n", "s", "u", "l", "t", "a", "n", "t">>,
      <<"R", "0", "8", "9", "0", "\t", "M", "u", "l", "t", "i", " ", "T", "h", "e", "r", "a", "p", "i", "s", "t", " ", "M", "a", "n", "a", "g", "e", "r">>,
      <<"R", "0", "9", "0", "0", "\t", "M", "u", "l", "t", "i", " ", "T", "h", "e", "r", "a", "p", "i", "s", "t", " ", "S", "p", "e", "c", "i", "a", "l", "i", "s", "t", " ", "P", "r", "a", "c", "t", "i", "t", "i", "o", "n", "e", "r">>,
      <<"R", "0", "9", "1", "0", "\t", "M", "u", "s", "i", "c", " ", "T", "h", "e", "r", "a", "p", "i", "s", "t">>,
      <<"R", "0", "9", "2", "0", "\t", "M", "u", "s", "i", "c", " ", "T", "h", "e", "r", "a", "p", "i", "s", "t", " ", "C", "o", "n", "s", "u", "l", "t", "a", "n", "t">>,
      <<"R", "0", "9", "3", "0", "\t", "M", "u", "s", "i", "c", " ", "T", "h", "e", "r", "a", "p", "i", "s", "t", " ", "M", "a", "n", "a", "g", "e", "r">>,
      <<"R", "0", "9", "4", "0", "\t", "M", "u", "s", "i", "c", " ", "T", "h", "e", "r", "a", "p", "i", "s", "t", " ", "S", "p", "e", "c", "i", "a", "l", "i", "s", "t", " ", "P", "r", "a", "c", "t", "i", "t", "i", "o", "n", "e", "r">>,
      <<"R", "0", "9", "5", "5", "\t", "S", "p", "e", "e", "c", "h", " ", "&", " ", "L", "a", "n", "g", "u", "a", "g", "e", " ", "T", "h", "e", "r", "a", "p", "i", "s", "t">>,
      <<"R", "0", "9", "6", "5", "\t", "S", "p", "e", "e", "c", "h", " ", "&", " ", "L", "a", "n", "g", "u", "a", "g", "e", " ", "T", "h", "e", "r", "a", "p", "i", "s", "t", " ", "C", "o", "n", "s", "u", "l", "t", "a", "n", "t">>,
      <<"R", "0", "9", "7", "5", "\t", "S", "p", "e", "e", "c", "h", " ", "&", " ", "L", "a", "n", "g", "u", "a", "g", "e", " ", "T", "h", "e", "r", "a", "p", "i", "s", "t", " ", "M", "a", "n", "a", "g", "e", "r">>,
      <<"R", "0", "9", "8", "5", "\t", "S", "p", "e", "e", "c", "h", " ", "&", " ", "L", "a", "n", "g", "u", "a", "g", "e", " ", "T", "h", "e", "r", "a", "p", "i", "s", "t", " ", "S", "p", "e", "c", "i", "a", "l", "i", "s", "t", " ", "P", "r", "a", "c", "t", "i", "t", "i", "o", "n", "e", "r">>,
      <<"R", "9", "5", "0", "0", "\t", "S", "o", "c", "i", "a", "l", " ", "S", "e", "r", "v", "i", "c", "e", "s", " ", "S", "e", "n", "i", "o", "r", " ", "M", "a", "n", "a", "g", "e", "m", "e", "n", "t">>,
      <<"R", "9", "5", "0", "5", "\t", "S", "o", "c", "i", "a", "l", " ", "S", "e", "r", "v", "i", "c", "e", "s", " ", "P", "o", "l", "i", "c", "y", " ", "a", "n", "d", " ", "P", "l", "a", "n", "n", "i", "n", "g">>,
      <<"R", "9", "5", "1", "0", "\t", "S", "o", "c", "i", "a", "l", " ", "S", "e", "r", "v", "i", "c", "e", "s", " ", "I", "n", "f", "o", "r", "m", "a", "t", "i", "o", "n", " ", "M", "a", "n", "a", "g", "e", "r">>,
      <<"R", "9", "5", "1", "5", "\t", "S", "o", "c", "i", "a", "l", " ", "W", "o", "r", "k", " ", "T", "e", "a", "m", " ", "M", "a", "n", "a", "g", "e", "r", " ", "(", "C", "h", "i", "l", "d", "r", "e", "n", ")">>,
      <<"R", "9", "5", "2", "0", "\t", "S", "e", "n", "i", "o", "r", " ", "S", "o", "c", "i", "a", "l", " ", "W", "o", "r", "k", "e", "r", " ", "(", "C", "h", "i", "l", "d", "r", "e", "n", ")">>,
      <<"R", "9", "5", "2", "5", "\t", "S", "o", "c", "i", "a", "l", " ", "S", "e", "r", "v", "i", "c", "e", "s", " ", "C", "a", "r", "e", " ", "M", "a", "n", "a", "g", "e", "r", " ", "(", "C", "h", "i", "l", "d", "r", "e", "n", ")">>,
      <<"R", "9", "5", "3", "0", "\t", "S", "o", "c", "i", "a", "l", " ", "W", "o", "r", "k", " ", "A", "s", "s", "i", "s", "t", "a", "n", "t", " ", "(", "C", "h", "i", "l", "d", "r", "e", "n", ")">>,
      <<"R", "9", "5", "3", "5", "\t", "C", "h", "i", "l", "d", " ", "P", "r", "o", "t", "e", "c", "t", "i", "o", "n", " ", "W", "o", "r", "k", "e", "r">>,
      <<"R", "9", "5", "4", "0", "\t", "F", "a", "m", "i", "l", "y", " ", "P", "l", "a", "c", "e", "m", "e", "n", "t", " ", "W", "o", "r", "k", "e", "r">>,
      <<"R", "9", "5", "4", "5", "\t", "C", "o", "m", "m", "u", "n", "i", "t", "y", " ", "W", "o", "r", "k", "e", "r", " ", "(", "C", "h", "i", "l", "d", "r", "e", "n", ")">>,
      <<"R", "9", "5", "5", "0", "\t", "O", "c", "c", "u", "p", "a", "t", "i", "o", "n", "a", "l", " ", "T", "h", "e", "r", "a", "p", "i", "s", "t">>,
      <<"R", "9", "5", "5", "5", "\t", "O", "c", "c", "u", "p", "a", "t", "i", "o", "n", "a", "l", " ", "T", "h", "e", "r", "a", "p", "i", "s", "t", " ", "A", "s", "s", "i", "s", "t", "a", "n", "t">>,
      <<"R", "9", "5", "6", "0", "\t", "O", "c", "c", "u", "p", "a", "t", "i", "o", "n", "a", "l", " ", "T", "h", "e", "r", "a", "p", "y", " ", "T", "e", "a", "m", " ", "M", "a", "n", "a", "g", "e", "r">>,
      <<"R", "9", "5", "6", "5", "\t", "S", "o", "c", "i", "a", "l", " ", "W", "o", "r", "k", " ", "T", "e", "a", "m", " ", "M", "a", "n", "a", "g", "e", "r", " ", "(", "A", "d", "u", "l", "t", "s", ")">>,
      <<"R", "9", "5", "7", "0", "\t", "S", "e", "n", "i", "o", "r", " ", "S", "o", "c", "i", "a", "l", " ", "W", "o", "r", "k", "e", "r", " ", "(", "A", "d", "u", "l", "t", "s", ")">>,
      <<"R", "9", "5", "7", "5", "\t", "S", "o", "c", "i", "a", "l", " ", "S", "e", "r", "v", "i", "c", "e", "s", " ", "C", "a", "r", "e", " ", "M", "a", "n", "a", "g", "e", "r", " ", "(", "A", "d", "u", "l", "t", "s", ")">>,
      <<"R", "9", "5", "8", "0", "\t", "S", "o", "c", "i", "a", "l", " ", "W", "o", "r", "k", " ", "A", "s", "s", "i", "s", "t", "a", "n", "t", " ", "(", "A", "d", "u", "l", "t", "s", ")">>,
      <<"R", "9", "5", "8", "5", "\t", "S", "o", "c", "i", "a", "l", " ", "W", "o", "r", "k", " ", "T", "e", "a", "m", " ", "M", "a", "n", "a", "g", "e", "r", " ", "(", "M", "e", "n", "t", "a", "l", " ", "H", "e", "a", "l", "t", "h", ")">>,
      <<"R", "9", "5", "9", "0", "\t", "S", "e", "n", "i", "o", "r", " ", "S", "o", "c", "i", "a", "l", " ", "W", "o", "r", "k", "e", "r", " ", "(", "M", "e", "n", "t", "a", "l", " ", "H", "e", "a", "l", "t", "h", ")">>,
      <<"R", "9", "5", "9", "5", "\t", "S", "o", "c", "i", "a", "l", " ", "S", "e", "r", "v", "i", "c", "e", "s", " ", "C", "a", "r", "e", " ", "M", "a", "n", "a", "g", "e", "r", " ", "(", "M", "e", "n", "t", "a", "l", " ", "H", "e", "a", "l", "t", "h", ")">>,
      <<"R", "9", "6", "0", "0", "\t", "S", "o", "c", "i", "a", "l", " ", "W", "o", "r", "k", " ", "A", "s", "s", "i", "s", "t", "a", "n", "t", " ", "(", "M", "e", "n", "t", "a", "l", " ", "H", "e", "a", "l", "t", "h", ")">>,
      <<"R", "9", "6", "0", "5", "\t", "E", "m", "e", "r", "g", "e", "n", "c", "y", " ", "D", "u", "t", "y", " ", "S", "o", "c", "i", "a", "l", " ", "W", "o", "r", "k", "e", "r">>,
      <<"R", "9", "6", "1", "5", "\t", "S", "o", "c", "i", "a", "l", " ", "S", "e", "r", "v", "i", "c", "e", "s", " ", "D", "r", "i", "v", "e", "r">>,
      <<"R", "9", "6", "2", "0", "\t", "H", "o", "m", "e", " ", "C", "a", "r", "e", " ", "O", "r", "g", "a", "n", "i", "s", "e", "r">>,
      <<"R", "9", "6", "2", "5", "\t", "H", "o", "m", "e", " ", "C", "a", "r", "e", " ", "A", "d", "m", "i", "n", "i", "s", "t", "r", "a", "t", "o", "r">>,
      <<"R", "9", "6", "3", "0", "\t", "H", "o", "m", "e", " ", "H", "e", "l", "p">>,
      <<"R", "9", "6", "3", "5", "\t", "W", "a", "r", "d", "e", "n">>,
      <<"R", "9", "6", "4", "0", "\t", "M", "e", "a", "l", "s", " ", "o", "n", " ", "W", "h", "e", "e", "l", "s", " ", "O", "r", "g", "a", "n", "i", "s", "e", "r">>,
      <<"R", "9", "6", "4", "5", "\t", "M", "e", "a", "l", "s", " ", "D", "e", "l", "i", "v", "e", "r", "y">>,
      <<"R", "9", "6", "5", "0", "\t", "D", "a", "y", " ", "C", "e", "n", "t", "r", "e", " ", "M", "a", "n", "a", "g", "e", "r">>,
      <<"R", "9", "6", "5", "5", "\t", "D", "a", "y", " ", "C", "e", "n", "t", "r", "e", " ", "D", "e", "p", "u", "t", "y">>,
      <<"R", "9", "6", "6", "0", "\t", "D", "a", "y", " ", "C", "e", "n", "t", "r", "e", " ", "O", "f", "f", "i", "c", "e", "r">>,
      <<"R", "9", "6", "6", "5", "\t", "D", "a", "y", " ", "C", "e", "n", "t", "r", "e", " ", "C", "a", "r", "e", " ", "S", "t", "a", "f", "f">>,
      <<"R", "9", "6", "7", "0", "\t", "F", "a", "m", "i", "l", "y", " ", "C", "e", "n", "t", "r", "e", " ", "M", "a", "n", "a", "g", "e", "r">>,
      <<"R", "9", "6", "7", "5", "\t", "F", "a", "m", "i", "l", "y", " ", "C", "e", "n", "t", "r", "e", " ", "D", "e", "p", "u", "t", "y">>,
      <<"R", "9", "6", "8", "0", "\t", "F", "a", "m", "i", "l", "y", " ", "C", "e", "n", "t", "r", "e", " ", "W", "o", "r", "k", "e", "r">>,
      <<"R", "9", "6", "8", "5", "\t", "N", "u", "r", "s", "e", "r", "y", " ", "M", "a", "n", "a", "g", "e", "r">>,
      <<"R", "9", "6", "9", "0", "\t", "N", "u", "r", "s", "e", "r", "y", " ", "D", "e", "p", "u", "t", "y">>,
      <<"R", "9", "6", "9", "5", "\t", "N", "u", "r", "s", "e", "r", "y", " ", "W", "o", "r", "k", "e", "r">>,
      <<"R", "9", "7", "0", "0", "\t", "P", "l", "a", "y", "g", "r", "o", "u", "p", " ", "L", "e", "a", "d", "e", "r">>,
      <<"R", "9", "7", "0", "5", "\t", "P", "l", "a", "y", "g", "r", "o", "u", "p", " ", "A", "s", "s", "i", "s", "t", "a", "n", "t">>,
      <<"R", "9", "7", "1", "0", "\t", "R", "e", "s", "i", "d", "e", "n", "t", "i", "a", "l", " ", "M", "a", "n", "a", "g", "e", "r">>,
      <<"R", "9", "7", "1", "5", "\t", "R", "e", "s", "i", "d", "e", "n", "t", "i", "a", "l", " ", "D", "e", "p", "u", "t", "y">>,
      <<"R", "9", "7", "2", "0", "\t", "R", "e", "s", "i", "d", "e", "n", "t", "i", "a", "l", " ", "W", "o", "r", "k", "e", "r">>,
      <<"R", "9", "7", "2", "5", "\t", "R", "e", "s", "i", "d", "e", "n", "t", "i", "a", "l", " ", "C", "a", "r", "e", " ", "S", "t", "a", "f", "f">>,
      <<"R", "9", "7", "3", "0", "\t", "I", "n", "t", "e", "r", "m", "e", "d", "i", "a", "t", "e", " ", "C", "a", "r", "e", " ", "M", "a", "n", "a", "g", "e", "r">>,
      <<"R", "9", "7", "3", "5", "\t", "I", "n", "t", "e", "r", "m", "e", "d", "i", "a", "t", "e", " ", "C", "a", "r", "e", " ", "D", "e", "p", "u", "t", "y">>,
      <<"R", "9", "7", "4", "0", "\t", "I", "n", "t", "e", "r", "m", "e", "d", "i", "a", "t", "e", " ", "C", "a", "r", "e", " ", "W", "o", "r", "k", "e", "r">>,
      <<"R", "9", "7", "4", "5", "\t", "I", "n", "t", "e", "r", "m", "e", "d", "i", "a", "t", "e", " ", "C", "a", "r", "e", " ", "S", "t", "a", "f", "f">>,
      <<"R", "9", "7", "5", "0", "\t", "S", "o", "c", "i", "a", "l", " ", "C", "a", "r", "e", " ", "S", "A", "P", " ", "U", "s", "e", "r">>,
      <<"R", "9", "7", "5", "5", "\t", "S", "o", "c", "i", "a", "l", " ", "C", "a", "r", "e", " ", "S", "A", "P", " ", "M", "a", "n", "a", "g", "e", "r">>,
      <<"R", "1", "2", "7", "0", "\t", "C", "l", "i", "n", "i", "c", "a", "l", " ", "D", "i", "r", "e", "c", "t", "o", "r">>,
      <<"R", "1", "2", "8", "0", "\t", "O", "p", "t", "o", "m", "e", "t", "r", "i", "s", "t">>,
      <<"R", "1", "2", "9", "0", "\t", "P", "h", "a", "r", "m", "a", "c", "i", "s", "t">>,
      <<"R", "1", "9", "7", "9", "\t", "M", "e", "d", "i", "c", "a", "l", " ", "T", "e", "c", "h", "n", "i", "c", "a", "l", " ", "O", "f", "f", "i", "c", "e", "r", " ", "-", " ", "P", "h", "a", "r", "m", "a", "c", "y">>,
      <<"R", "1", "3", "0", "0", "\t", "P", "s", "y", "c", "h", "o", "t", "h", "e", "r", "a", "p", "i", "s", "t">>,
      <<"R", "1", "3", "1", "0", "\t", "C", "l", "i", "n", "i", "c", "a", "l", " ", "P", "s", "y", "c", "h", "o", "l", "o", "g", "i", "s", "t">>,
      <<"R", "1", "3", "2", "0", "\t", "C", "h", "a", "p", "l", "a", "i", "n">>,
      <<"R", "1", "3", "3", "0", "\t", "S", "o", "c", "i", "a", "l", " ", "W", "o", "r", "k", "e", "r">>,
      <<"R", "1", "3", "4", "0", "\t", "A", "p", "p", "r", "o", "v", "e", "d", " ", "S", "o", "c", "i", "a", "l", " ", "W", "o", "r", "k", "e", "r">>,
      <<"R", "1", "3", "5", "0", "\t", "Y", "o", "u", "t", "h", " ", "W", "o", "r", "k", "e", "r">>,
      <<"R", "1", "3", "6", "0", "\t", "S", "p", "e", "c", "i", "a", "l", "i", "s", "t", " ", "P", "r", "a", "c", "t", "i", "t", "i", "o", "n", "e", "r">>,
      <<"R", "1", "3", "7", "0", "\t", "P", "r", "a", "c", "t", "i", "t", "i", "o", "n", "e", "r">>,
      <<"R", "0", "0", "1", "1", "\t", "D", "i", "s", "p", "e", "n", "s", "e", "r">>,
      <<"R", "1", "3", "8", "0", "\t", "T", "e", "c", "h", "n", "i", "c", "i", "a", "n", " ", "-", " ", "P", "S", "&", "T">>,
      <<"R", "1", "3", "9", "0", "\t", "O", "s", "t", "e", "o", "p", "a", "t", "h">>,
      <<"R", "1", "4", "0", "0", "\t", "H", "e", "a", "l", "t", "h", "c", "a", "r", "e", " ", "S", "c", "i", "e", "n", "t", "i", "s", "t">>,
      <<"R", "1", "4", "1", "0", "\t", "C", "o", "n", "s", "u", "l", "t", "a", "n", "t", " ", "H", "e", "a", "l", "t", "h", "c", "a", "r", "e", " ", "S", "c", "i", "e", "n", "t", "i", "s", "t">>,
      <<"R", "1", "4", "2", "0", "\t", "B", "i", "o", "m", "e", "d", "i", "c", "a", "l", " ", "S", "c", "i", "e", "n", "t", "i", "s", "t">>,
      <<"R", "0", "0", "1", "9", "\t", "M", "e", "d", "i", "c", "a", "l", " ", "T", "e", "c", "h", "n", "i", "c", "a", "l", " ", "O", "f", "f", "i", "c", "e", "r">>,
      <<"R", "1", "4", "3", "0", "\t", "T", "e", "c", "h", "n", "i", "c", "i", "a", "n", " ", "-", " ", "H", "e", "a", "l", "t", "h", "c", "a", "r", "e", " ", "S", "c", "i", "e", "n", "t", "i", "s", "t", "s">>,
      <<"R", "1", "4", "4", "0", "\t", "T", "h", "e", "r", "a", "p", "i", "s", "t">>,
      <<"R", "1", "5", "4", "0", "\t", "A", "s", "s", "o", "c", "i", "a", "t", "e", " ", "P", "r", "a", "c", "t", "i", "t", "i", "o", "n", "e", "r">>,
      <<"R", "1", "5", "4", "3", "\t", "A", "s", "s", "o", "c", "i", "a", "t", "e", " ", "P", "r", "a", "c", "t", "i", "t", "i", "o", "n", "e", "r", " ", "-", " ", "N", "u", "r", "s", "e">>,
      <<"R", "1", "5", "4", "7", "\t", "A", "s", "s", "o", "c", "i", "a", "t", "e", " ", "P", "r", "a", "c", "t", "i", "t", "i", "o", "n", "e", "r", " ", "-", " ", "G", "e", "n", "e", "r", "a", "l", " ", "P", "r", "a", "c", "t", "i", "t", "i", "o", "n", "e", "r">>,
      <<"R", "1", "5", "6", "0", "\t", "H", "e", "l", "p", "e", "r", "/", "A", "s", "s", "i", "s", "t", "a", "n", "t">>,
      <<"R", "1", "6", "0", "0", "\t", "C", "y", "t", "o", "s", "c", "r", "e", "e", "n", "e", "r">>,
      <<"R", "1", "5", "7", "0", "\t", "D", "e", "n", "t", "a", "l", " ", "S", "u", "r", "g", "e", "r", "y", " ", "A", "s", "s", "i", "s", "t", "a", "n", "t">>,
      <<"R", "1", "4", "5", "0", "\t", "H", "e", "a", "l", "t", "h", " ", "C", "a", "r", "e", " ", "S", "u", "p", "p", "o", "r", "t", " ", "W", "o", "r", "k", "e", "r">>,
      <<"R", "1", "5", "8", "0", "\t", "M", "e", "d", "i", "c", "a", "l", " ", "L", "a", "b", "o", "r", "a", "t", "o", "r", "y", " ", "A", "s", "s", "i", "s", "t", "a", "n", "t">>,
      <<"R", "1", "5", "5", "0", "\t", "C", "o", "u", "n", "s", "e", "l", "l", "o", "r">>,
      <<"R", "0", "0", "0", "2", "\t", "P", "o", "r", "t", "e", "r">>,
      <<"R", "1", "6", "9", "0", "\t", "C", "a", "l", "l", " ", "O", "p", "e", "r", "a", "t", "o", "r">>,
      <<"R", "1", "7", "0", "0", "\t", "G", "a", "t", "e", "w", "a", "y", " ", "W", "o", "r", "k", "e", "r">>,
      <<"R", "1", "7", "1", "0", "\t", "S", "u", "p", "p", "o", "r", "t", ",", " ", "T", "i", "m", "e", ",", " ", "R", "e", "c", "o", "v", "e", "r", "y", " ", "W", "o", "r", "k", "e", "r">>,
      <<"R", "1", "4", "8", "0", "\t", "H", "e", "a", "l", "t", "h", "c", "a", "r", "e", " ", "A", "s", "s", "i", "s", "t", "a", "n", "t">>,
      <<"R", "1", "4", "9", "0", "\t", "N", "u", "r", "s", "e", "r", "y", " ", "N", "u", "r", "s", "e">>,
      <<"R", "1", "5", "9", "0", "\t", "P", "h", "l", "e", "b", "o", "t", "o", "m", "i", "s", "t">>,
      <<"R", "1", "4", "6", "0", "\t", "S", "o", "c", "i", "a", "l", " ", "C", "a", "r", "e", " ", "S", "u", "p", "p", "o", "r", "t", " ", "W", "o", "r", "k", "e", "r">>,
      <<"R", "1", "4", "7", "0", "\t", "H", "o", "m", "e", " ", "H", "e", "l", "p">>,
      <<"R", "1", "5", "2", "0", "\t", "T", "e", "c", "h", "n", "i", "c", "i", "a", "n", " ", "-", " ", "A", "d", "d", "i", "t", "i", "o", "n", "a", "l", " ", "C", "l", "i", "n", "i", "c", "a", "l", " ", "S", "e", "r", "v", "i", "c", "e", "s">>,
      <<"R", "1", "5", "3", "0", "\t", "T", "e", "c", "h", "n", "i", "c", "a", "l", " ", "I", "n", "s", "t", "r", "u", "c", "t", "o", "r">>,
      <<"R", "1", "9", "8", "0", "\t", "P", "a", "t", "i", "e", "n", "t", " ", "W", "e", "l", "f", "a", "r", "e", " ", "O", "f", "f", "i", "c", "e", "r">>,
      <<"R", "1", "5", "0", "0", "\t", "P", "l", "a", "y", " ", "T", "h", "e", "r", "a", "p", "i", "s", "t">>,
      <<"R", "1", "5", "1", "0", "\t", "P", "l", "a", "y", " ", "S", "p", "e", "c", "i", "a", "l", "i", "s", "t">>,
      <<"R", "1", "6", "1", "0", "\t", "S", "t", "u", "d", "e", "n", "t", " ", "T", "e", "c", "h", "n", "i", "c", "i", "a", "n">>,
      <<"R", "1", "6", "2", "0", "\t", "T", "r", "a", "i", "n", "e", "e", " ", "S", "c", "i", "e", "n", "t", "i", "s", "t">>,
      <<"R", "1", "6", "3", "0", "\t", "T", "r", "a", "i", "n", "e", "e", " ", "P", "r", "a", "c", "t", "i", "t", "i", "o", "n", "e", "r">>,
      <<"R", "1", "6", "4", "0", "\t", "N", "u", "r", "s", "i", "n", "g", " ", "C", "a", "d", "e", "t">>,
      <<"R", "1", "6", "5", "0", "\t", "H", "e", "a", "l", "t", "h", "c", "a", "r", "e", " ", "C", "a", "d", "e", "t">>,
      <<"R", "1", "6", "6", "0", "\t", "P", "r", "e", "-", "r", "e", "g", " ", "P", "h", "a", "r", "m", "a", "c", "i", "s", "t">>,
      <<"R", "1", "6", "7", "0", "\t", "A", "s", "s", "i", "s", "t", "a", "n", "t", " ", "P", "s", "y", "c", "h", "o", "l", "o", "g", "i", "s", "t">>,
      <<"R", "1", "6", "8", "0", "\t", "A", "s", "s", "i", "s", "t", "a", "n", "t", " ", "P", "s", "y", "c", "h", "o", "t", "h", "e", "r", "a", "p", "i", "s", "t">>,
      <<"R", "0", "0", "0", "7", "\t", "E", "R", "S", " ", "S", "D", "S", " ", "O", "r", "g", "a", "n", "i", "s", "a", "t", "i", "o", "n", " ", "R", "e", "p", "o", "r", "t", "i", "n", "g", " ", "A", "n", "a", "l", "y", "s", "t">>,
      <<"R", "0", "0", "0", "8", "\t", "D", "e", "m", "o", "g", "r", "a", "p", "h", "i", "c", " ", "S", "u", "p", "e", "r", "v", "i", "s", "o", "r">>,
      <<"R", "0", "0", "2", "1", "\t", "D", "S", "A", " ", "N", "H", "S", " ", "N", "u", "m", "b", "e", "r", " ", "M", "a", "n", "a", "g", "e", "r", " ", "(", "T", "e", "m", "p", "o", "r", "a", "r", "y", ")">>,
      <<"R", "0", "0", "2", "2", "\t", "D", "S", "A", " ", "N", "a", "t", "i", "o", "n", "a", "l", " ", "C", "l", "i", "n", "i", "c", "a", "l", " ", "S", "u", "p", "e", "r", "v", "i", "s", "o", "r", " ", "(", "T", "e", "m", "p", "o", "r", "a", "r", "y", ")">>,
      <<"R", "0", "0", "2", "3", "\t", "D", "S", "A", " ", "N", "a", "t", "i", "o", "n", "a", "l", " ", "C", "l", "i", "n", "i", "c", "a", "l", " ", "A", "d", "m", "i", "n", "i", "s", "t", "r", "a", "t", "o", "r", " ", "(", "T", "e", "m", "p", "o", "r", "a", "r", "y", ")">>,
      <<"R", "1", "7", "2", "0", "\t", "C", "l", "e", "r", "i", "c", "a", "l", " ", "W", "o", "r", "k", "e", "r">>,
      <<"R", "1", "7", "3", "0", "\t", "R", "e", "c", "e", "p", "t", "i", "o", "n", "i", "s", "t">>,
      <<"R", "1", "7", "4", "0", "\t", "S", "e", "c", "r", "e", "t", "a", "r", "y">>,
      <<"R", "1", "7", "5", "0", "\t", "P", "e", "r", "s", "o", "n", "a", "l", " ", "A", "s", "s", "i", "s", "t", "a", "n", "t">>,
      <<"R", "1", "7", "5", "1", "\t", "D", "e", "m", "o", "g", "r", "a", "p", "h", "i", "c", " ", "A", "d", "m", "i", "n", "i", "s", "t", "r", "a", "t", "o", "r", " ", "(", "S", "e", "n", "s", "i", "t", "i", "v", "e", " ", "R", "e", "c", "o", "r", "d", "s", ")", " ", "T", "e", "m", "p", "o", "r", "a", "r", "y">>,
      <<"R", "1", "7", "6", "0", "\t", "M", "e", "d", "i", "c", "a", "l", " ", "S", "e", "c", "r", "e", "t", "a", "r", "y">>,
      <<"R", "1", "7", "7", "0", "\t", "O", "f", "f", "i", "c", "e", "r">>,
      <<"R", "1", "9", "7", "1", "\t", "M", "a", "p", " ", "o", "f", " ", "M", "e", "d", "i", "c", "i", "n", "e", " ", "A", "d", "m", "i", "n", "i", "s", "t", "r", "a", "t", "o", "r">>,
      <<"R", "1", "9", "7", "3", "\t", "C", "o", "m", "m", "u", "n", "i", "t", "y", " ", "A", "d", "m", "i", "n", "i", "s", "t", "r", "a", "t", "o", "r">>,
      <<"R", "1", "9", "7", "7", "\t", "E", "C", "C", "/", "C", "P", "A", " ", "A", "d", "m", "i", "n", "i", "s", "t", "r", "a", "t", "o", "r">>,
      <<"R", "1", "9", "7", "8", "\t", "I", "n", "f", "o", "r", "m", "a", "t", "i", "o", "n", " ", "O", "f", "f", "i", "c", "e", "r">>,
      <<"R", "1", "9", "8", "5", "\t", "H", "e", "a", "l", "t", "h", " ", "R", "e", "c", "o", "r", "d", "s", " ", "C", "l", "e", "r", "k">>,
      <<"R", "1", "9", "9", "5", "\t", "E", "n", "d", " ", "P", "o", "i", "n", "t", " ", "A", "p", "p", "r", "o", "v", "e", "r">>,
      <<"R", "5", "0", "1", "0", "\t", "N", "e", "t", "w", "o", "r", "k", " ", "T", "e", "c", "h", "n", "i", "c", "i", "a", "n">>,
      <<"R", "5", "0", "4", "0", "\t", "D", "e", "s", "k", "t", "o", "p", " ", "S", "u", "p", "p", "o", "r", "t", " ", "A", "d", "m", "i", "n", "i", "s", "t", "r", "a", "t", "o", "r">>,
      <<"R", "5", "0", "9", "0", "\t", "R", "e", "g", "i", "s", "t", "r", "a", "t", "i", "o", "n", " ", "A", "u", "t", "h", "o", "r", "i", "t", "y", " ", "A", "g", "e", "n", "t">>,
      <<"R", "5", "1", "1", "0", "\t", "D", "e", "m", "o", "g", "r", "a", "p", "h", "i", "c", " ", "A", "d", "m", "i", "n", "i", "s", "t", "r", "a", "t", "o", "r">>,
      <<"R", "5", "1", "2", "0", "\t", "I", "S", "P", " ", "A", "d", "m", "i", "n", "i", "s", "t", "r", "a", "t", "o", "r">>,
      <<"R", "5", "1", "3", "0", "\t", "T", "e", "c", "h", "n", "i", "c", "a", "l", " ", "C", "o", "d", "e", "s", " ", "A", "d", "m", "i", "n", "i", "s", "t", "r", "a", "t", "o", "r">>,
      <<"R", "5", "1", "4", "0", "\t", "O", "S", "S", " ", "A", "d", "m", "i", "n", "i", "s", "t", "r", "a", "t", "o", "r">>,
      <<"R", "5", "1", "7", "0", "\t", "E", "n", "d", " ", "P", "o", "i", "n", "t", " ", "A", "d", "m", "i", "n", "i", "s", "t", "r", "a", "t", "o", "r">>,
      <<"R", "5", "1", "7", "5", "\t", "E", "n", "d", " ", "P", "o", "i", "n", "t", " ", "V", "i", "e", "w", "e", "r">>,
      <<"R", "5", "1", "8", "1", "\t", "R", "T", "S", " ", "D", "a", "s", "h", "b", "o", "a", "r", "d", " ", "U", "s", "e", "r">>,
      <<"R", "5", "1", "8", "3", "\t", "R", "T", "S", " ", "B", "T", " ", "D", "a", "s", "h", "b", "o", "a", "r", "d", " ", "U", "s", "e", "r">>,
      <<"R", "5", "1", "8", "6", "\t", "E", "R", "S", " ", "B", "T", " ", "C", "u", "s", "t", "o", "m", "e", "r", " ", "S", "L", "A", " ", "U", "s", "e", "r">>,
      <<"R", "5", "1", "8", "8", "\t", "E", "R", "S", " ", "B", "T", " ", "S", "u", "p", "p", "l", "i", "e", "r", " ", "S", "L", "A", " ", "U", "s", "e", "r">>,
      <<"R", "5", "1", "8", "9", "\t", "E", "R", "S", " ", "L", "o", "g", "i", "c", "a", "C", "M", "G", " ", "S", "L", "A", " ", "U", "s", "e", "r">>,
      <<"R", "5", "1", "9", "0", "\t", "C", "o", "n", "t", "e", "n", "t", " ", "C", "r", "e", "a", "t", "o", "r">>,
      <<"R", "5", "1", "9", "5", "\t", "C", "o", "n", "t", "e", "n", "t", " ", "P", "u", "b", "l", "i", "s", "h", "e", "r">>,
      <<"R", "5", "2", "1", "0", "\t", "U", "s", "e", "r", " ", "D", "e", "t", "a", "i", "l", "s", " ", "A", "d", "m", "i", "n", "i", "s", "t", "r", "a", "t", "o", "r">>,
      <<"R", "5", "2", "5", "0", "\t", "E", "B", "S", " ", "A", "d", "m", "i", "n", "i", "s", "t", "r", "a", "t", "o", "r">>,
      <<"R", "6", "0", "1", "0", "\t", "A", "p", "p", "o", "i", "n", "t", "m", "e", "n", "t", "s", " ", "C", "l", "e", "r", "k">>,
      <<"R", "6", "0", "3", "0", "\t", "W", "a", "r", "d", " ", "C", "l", "e", "r", "k">>,
      <<"R", "6", "0", "5", "0", "\t", "C", "l", "i", "n", "i", "c", "a", "l", " ", "C", "o", "d", "e", "r">>,
      <<"R", "6", "0", "6", "0", "\t", "M", "e", "d", "i", "c", "a", "l", " ", "R", "e", "c", "o", "r", "d", "s", " ", "C", "l", "e", "r", "k">>,
      <<"R", "6", "0", "8", "0", "\t", "W", "a", "i", "t", "i", "n", "g", " ", "L", "i", "s", "t", " ", "C", "l", "e", "r", "k">>,
      <<"R", "7", "1", "0", "0", "\t", "T", "r", "a", "i", "n", "e", "r">>,
      <<"R", "7", "1", "1", "0", "\t", "T", "r", "a", "i", "n", "i", "n", "g", " ", "M", "a", "n", "a", "g", "e", "r">>,
      <<"R", "7", "1", "2", "0", "\t", "D", "i", "r", "e", "c", "t", "o", "r", "y", " ", "o", "f", " ", "S", "e", "r", "v", "i", "c", "e", "s", " ", "C", "o", "o", "r", "d", "i", "n", "a", "t", "o", "r">>,
      <<"R", "9", "7", "5", "6", "\t", "E", "T", "P", " ", "S", "y", "s", "t", "e", "m", " ", "A", "d", "m", "i", "n", "i", "s", "t", "r", "a", "t", "o", "r">>,
      <<"R", "1", "7", "8", "0", "\t", "M", "a", "n", "a", "g", "e", "r">>,
      <<"R", "1", "7", "9", "0", "\t", "S", "e", "n", "i", "o", "r", " ", "M", "a", "n", "a", "g", "e", "r">>,
      <<"R", "1", "9", "1", "0", "\t", "C", "h", "a", "i", "r">>,
      <<"R", "1", "9", "2", "0", "\t", "C", "h", "i", "e", "f", " ", "E", "x", "e", "c", "u", "t", "i", "v", "e">>,
      <<"R", "1", "9", "3", "0", "\t", "F", "i", "n", "a", "n", "c", "e", " ", "D", "i", "r", "e", "c", "t", "o", "r">>,
      <<"R", "1", "9", "4", "0", "\t", "O", "t", "h", "e", "r", " ", "E", "x", "e", "c", "u", "t", "i", "v", "e", " ", "D", "i", "r", "e", "c", "t", "o", "r">>,
      <<"R", "1", "9", "5", "0", "\t", "B", "o", "a", "r", "d", " ", "L", "e", "v", "e", "l", " ", "D", "i", "r", "e", "c", "t", "o", "r">>,
      <<"R", "1", "9", "6", "0", "\t", "N", "o", "n", " ", "E", "x", "e", "c", "u", "t", "i", "v", "e", " ", "D", "i", "r", "e", "c", "t", "o", "r">>,
      <<"R", "1", "9", "7", "0", "\t", "C", "h", "i", "l", "d", "c", "a", "r", "e", " ", "C", "o", "-", "o", "r", "d", "i", "n", "a", "t", "o", "r">>,
      <<"R", "1", "9", "8", "2", "\t", "S", "e", "n", "i", "o", "r", " ", "A", "d", "m", "i", "n", "i", "s", "t", "r", "a", "t", "o", "r">>,
      <<"R", "1", "9", "8", "3", "\t", "W", "a", "r", "d", " ", "M", "a", "n", "a", "g", "e", "r">>,
      <<"R", "1", "9", "8", "6", "\t", "W", "o", "r", "k", "g", "r", "o", "u", "p", " ", "A", "d", "m", "i", "n", "i", "s", "t", "r", "a", "t", "o", "r">>,
      <<"R", "1", "9", "8", "7", "\t", "N", "a", "t", "i", "o", "n", "a", "l", " ", "R", "B", "A", "C", " ", "A", "t", "t", "r", "i", "b", "u", "t", "e", " ", "A", "d", "m", "i", "n", "i", "s", "t", "r", "a", "t", "o", "r">>,
      <<"R", "1", "9", "8", "8", "\t", "N", "a", "t", "i", "o", "n", "a", "l", " ", "R", "B", "A", "C", " ", "B", "a", "s", "e", "l", "i", "n", "e", " ", "P", "o", "l", "i", "c", "y", " ", "A", "d", "m", "i", "n", "i", "s", "t", "r", "a", "t", "o", "r">>,
      <<"R", "1", "9", "8", "9", "\t", "C", "o", "m", "p", "l", "a", "i", "n", "t", "s", " ", "C", "o", "o", "r", "d", "i", "n", "a", "t", "o", "r">>,
      <<"R", "1", "9", "9", "0", "\t", "C", "o", "m", "p", "l", "a", "i", "n", "t", "s", " ", "I", "n", "v", "e", "s", "t", "i", "g", "a", "t", "o", "r">>,
      <<"R", "1", "9", "9", "6", "\t", "E", "n", "d", " ", "P", "o", "i", "n", "t", " ", "D", "N", "S", " ", "A", "d", "m", "i", "n", "i", "s", "t", "r", "a", "t", "o", "r">>,
      <<"R", "1", "9", "9", "7", "\t", "E", "n", "d", " ", "P", "o", "i", "n", "t", " ", "S", "p", "i", "n", "e", " ", "A", "d", "m", "i", "n", "i", "s", "t", "r", "a", "t", "o", "r">>,
      <<"R", "1", "9", "9", "8", "\t", "E", "n", "d", " ", "P", "o", "i", "n", "t", " ", "S", "u", "p", "e", "r", " ", "U", "s", "e", "r">>,
      <<"R", "1", "9", "9", "9", "\t", "E", "n", "d", " ", "P", "o", "i", "n", "t", " ", "S", "e", "r", "v", "i", "c", "e", " ", "A", "d", "m", "i", "n", "i", "s", "t", "r", "a", "t", "o", "r">>,
      <<"R", "5", "0", "0", "0", "\t", "N", "e", "t", "w", "o", "r", "k", " ", "A", "d", "m", "i", "n", "i", "s", "t", "r", "a", "t", "o", "r">>,
      <<"R", "5", "0", "0", "3", "\t", "C", "l", "u", "s", "t", "e", "r", " ", "S", "y", "s", "t", "e", "m", " ", "A", "d", "m", "i", "n", "i", "s", "t", "r", "a", "t", "o", "r">>,
      <<"R", "5", "0", "0", "7", "\t", "S", "y", "s", "t", "e", "m", " ", "A", "d", "m", "i", "n", "i", "s", "t", "r", "a", "t", "o", "r">>,
      <<"R", "5", "0", "2", "0", "\t", "H", "e", "l", "p", "d", "e", "s", "k", " ", "A", "d", "m", "i", "n", "i", "s", "t", "r", "a", "t", "o", "r">>,
      <<"R", "5", "0", "6", "0", "\t", "S", "e", "c", "u", "r", "i", "t", "y", " ", "P", "o", "l", "i", "c", "y", " ", "C", "o", "n", "t", "r", "o", "l", "l", "e", "r">>,
      <<"R", "5", "0", "7", "0", "\t", "S", "e", "n", "i", "o", "r", " ", "S", "e", "c", "u", "r", "i", "t", "y", " ", "M", "a", "n", "a", "g", "e", "r">>,
      <<"R", "5", "0", "7", "2", "\t", "R", "o", "o", "t", " ", "R", "e", "g", "i", "s", "t", "r", "a", "t", "i", "o", "n", " ", "A", "u", "t", "h", "o", "r", "i", "t", "y", " ", "M", "a", "n", "a", "g", "e", "r">>,
      <<"R", "5", "0", "8", "0", "\t", "R", "e", "g", "i", "s", "t", "r", "a", "t", "i", "o", "n", " ", "A", "u", "t", "h", "o", "r", "i", "t", "y", " ", "M", "a", "n", "a", "g", "e", "r">>,
      <<"R", "5", "1", "0", "0", "\t", "A", "u", "d", "i", "t", " ", "M", "a", "n", "a", "g", "e", "r">>,
      <<"R", "5", "1", "0", "5", "\t", "C", "a", "l", "d", "i", "c", "o", "t", "t", " ", "G", "u", "a", "r", "d", "i", "a", "n">>,
      <<"R", "5", "1", "8", "0", "\t", "N", "A", "S", "P", " ", "S", "e", "r", "v", "i", "c", "e", " ", "M", "a", "n", "a", "g", "e", "r">>,
      <<"R", "5", "1", "8", "2", "\t", "E", "R", "S", " ", "E", "T", "P", " ", "S", "y", "s", "t", "e", "m", " ", "A", "d", "m", "i", "n", "i", "s", "t", "r", "a", "t", "o", "r">>,
      <<"R", "5", "1", "8", "4", "\t", "E", "R", "S", " ", "S", "p", "i", "n", "e", " ", "S", "L", "A", " ", "M", "a", "n", "a", "g", "e", "r">>,
      <<"R", "5", "1", "8", "5", "\t", "E", "R", "S", " ", "B", "T", " ", "C", "u", "s", "t", "o", "m", "e", "r", " ", "S", "L", "A", " ", "M", "a", "n", "a", "g", "e", "r">>,
      <<"R", "5", "1", "8", "7", "\t", "E", "R", "S", " ", "B", "T", " ", "S", "u", "p", "p", "l", "i", "e", "r", " ", "S", "L", "A", " ", "M", "a", "n", "a", "g", "e", "r">>,
      <<"R", "5", "1", "9", "1", "\t", "E", "R", "S", " ", "S", "u", "p", "p", "o", "r", "t", " ", "A", "d", "m", "i", "n", "i", "s", "t", "r", "a", "t", "o", "r">>,
      <<"R", "5", "1", "9", "2", "\t", "E", "C", "S", " ", "A", "d", "m", "i", "n", "i", "s", "t", "r", "a", "t", "o", "r">>,
      <<"R", "5", "3", "0", "0", "\t", "P", "o", "r", "t", "a", "l", " ", "A", "d", "m", "i", "n", "i", "s", "t", "r", "a", "t", "o", "r">>,
      <<"R", "5", "3", "1", "0", "\t", "L", "i", "q", "u", "i", "d", "L", "o", "g", "i", "c", " ", "A", "d", "m", "i", "n", "i", "s", "t", "r", "a", "t", "o", "r">>,
      <<"R", "5", "3", "2", "0", "\t", "i", ".", "E", "P", "R", " ", "A", "d", "m", "i", "n", "i", "s", "t", "r", "a", "t", "o", "r">>,
      <<"R", "5", "3", "3", "0", "\t", "S", "y", "n", "e", "r", "g", "y", " ", "A", "d", "m", "i", "n", "i", "s", "t", "r", "a", "t", "o", "r">>,
      <<"R", "5", "3", "4", "0", "\t", "S", "y", "s", "t", "m", "O", "n", "e", " ", "A", "d", "m", "i", "n", "i", "s", "t", "r", "a", "t", "o", "r">>,
      <<"R", "6", "0", "2", "0", "\t", "O", "u", "t", "p", "a", "t", "i", "e", "n", "t", " ", "M", "a", "n", "a", "g", "e", "r">>,
      <<"R", "6", "0", "4", "0", "\t", "B", "e", "d", " ", "M", "a", "n", "a", "g", "e", "r">>,
      <<"R", "6", "0", "7", "0", "\t", "M", "e", "d", "i", "c", "a", "l", " ", "R", "e", "c", "o", "r", "d", "s", " ", "M", "a", "n", "a", "g", "e", "r">>,
      <<"R", "6", "0", "9", "0", "\t", "W", "a", "i", "t", "i", "n", "g", " ", "L", "i", "s", "t", " ", "M", "a", "n", "a", "g", "e", "r">>,
      <<"R", "6", "1", "0", "0", "\t", "M", "e", "n", "t", "a", "l", " ", "H", "e", "a", "l", "t", "h", " ", "A", "c", "t", " ", "A", "d", "m", "i", "n", "i", "s", "t", "r", "a", "t", "o", "r">>,
      <<"R", "6", "1", "6", "0", "\t", "A", "d", "-", "h", "o", "c", " ", "R", "e", "p", "o", "r", "t", " ", "M", "a", "n", "a", "g", "e", "r">>,
      <<"R", "7", "1", "3", "0", "\t", "P", "A", "S", " ", "M", "a", "n", "a", "g", "e", "r">>,
      <<"R", "1", "8", "0", "0", "\t", "T", "e", "c", "h", "n", "i", "c", "i", "a", "n", " ", "-", " ", "A", "d", "m", "i", "n", " ", "&", " ", "C", "l", "e", "r", "i", "c", "a", "l">>,
      <<"R", "1", "8", "1", "0", "\t", "A", "c", "c", "o", "u", "n", "t", "a", "n", "t">>,
      <<"R", "1", "8", "2", "0", "\t", "L", "i", "b", "r", "a", "r", "i", "a", "n">>,
      <<"R", "1", "8", "3", "0", "\t", "I", "n", "t", "e", "r", "p", "r", "e", "t", "e", "r">>,
      <<"R", "1", "8", "4", "0", "\t", "A", "n", "a", "l", "y", "s", "t">>,
      <<"R", "1", "8", "5", "0", "\t", "A", "d", "v", "i", "s", "e", "r">>,
      <<"R", "1", "8", "6", "0", "\t", "R", "e", "s", "e", "a", "r", "c", "h", "e", "r">>,
      <<"R", "1", "8", "7", "0", "\t", "C", "o", "n", "t", "r", "o", "l", " ", "A", "s", "s", "i", "s", "t", "a", "n", "t">>,
      <<"R", "1", "8", "8", "0", "\t", "A", "r", "c", "h", "i", "t", "e", "c", "t">>,
      <<"R", "1", "8", "9", "0", "\t", "L", "a", "w", "y", "e", "r">>,
      <<"R", "1", "9", "0", "0", "\t", "S", "u", "r", "v", "e", "y", "o", "r">>,
      <<"R", "5", "0", "3", "0", "\t", "H", "e", "l", "p", "d", "e", "s", "k", " ", "T", "e", "c", "h", "n", "i", "c", "i", "a", "n">>,
      <<"R", "5", "0", "5", "0", "\t", "D", "e", "s", "k", "t", "o", "p", " ", "S", "u", "p", "p", "o", "r", "t", " ", "T", "e", "c", "h", "n", "i", "c", "i", "a", "n">>,
      <<"R", "5", "1", "5", "0", "\t", "S", "y", "s", "t", "e", "m", " ", "W", "o", "r", "k", "e", "r">>,
      <<"R", "5", "4", "0", "0", "\t", "A", "v", "a", "i", "l", "a", "b", "i", "l", "i", "t", "y", " ", "M", "o", "n", "i", "t", "o", "r">>,
      <<"R", "8", "0", "0", "0", "\t", "C", "l", "i", "n", "i", "c", "a", "l", " ", "P", "r", "a", "c", "t", "i", "t", "i", "o", "n", "e", "r", " ", "A", "c", "c", "e", "s", "s", " ", "R", "o", "l", "e">>,
      <<"R", "8", "0", "0", "1", "\t", "N", "u", "r", "s", "e", " ", "A", "c", "c", "e", "s", "s", " ", "R", "o", "l", "e">>,
      <<"R", "8", "0", "0", "2", "\t", "N", "u", "r", "s", "e", " ", "M", "a", "n", "a", "g", "e", "r", " ", "A", "c", "c", "e", "s", "s", " ", "R", "o", "l", "e">>,
      <<"R", "8", "0", "0", "3", "\t", "H", "e", "a", "l", "t", "h", " ", "P", "r", "o", "f", "e", "s", "s", "i", "o", "n", "a", "l", " ", "A", "c", "c", "e", "s", "s", " ", "R", "o", "l", "e">>,
      <<"R", "8", "0", "0", "4", "\t", "H", "e", "a", "l", "t", "h", "c", "a", "r", "e", " ", "S", "t", "u", "d", "e", "n", "t", " ", "A", "c", "c", "e", "s", "s", " ", "R", "o", "l", "e">>,
      <<"R", "8", "0", "1", "6", "\t", "M", "i", "d", "w", "i", "f", "e", " ", "A", "c", "c", "e", "s", "s", " ", "R", "o", "l", "e">>,
      <<"R", "8", "0", "1", "7", "\t", "M", "i", "d", "w", "i", "f", "e", " ", "M", "a", "n", "a", "g", "e", "r", " ", "A", "c", "c", "e", "s", "s", " ", "R", "o", "l", "e">>,
      <<"R", "8", "0", "2", "4", "\t", "B", "a", "n", "k", " ", "A", "c", "c", "e", "s", "s", " ", "R", "o", "l", "e">>,
      <<"R", "8", "0", "0", "5", "\t", "B", "i", "o", "m", "e", "d", "i", "c", "a", "l", " ", "S", "c", "i", "e", "n", "t", "i", "s", "t", " ", "A", "c", "c", "e", "s", "s", " ", "R", "o", "l", "e">>,
      <<"R", "8", "0", "0", "6", "\t", "M", "e", "d", "i", "c", "a", "l", " ", "S", "e", "c", "r", "e", "t", "a", "r", "y", " ", "A", "c", "c", "e", "s", "s", " ", "R", "o", "l", "e">>,
      <<"R", "8", "0", "0", "7", "\t", "C", "l", "i", "n", "i", "c", "a", "l", " ", "C", "o", "d", "e", "r", " ", "A", "c", "c", "e", "s", "s", " ", "R", "o", "l", "e">>,
      <<"R", "8", "0", "0", "8", "\t", "A", "d", "m", "i", "n", "/", "C", "l", "i", "n", "i", "c", "a", "l", " ", "S", "u", "p", "p", "o", "r", "t", " ", "A", "c", "c", "e", "s", "s", " ", "R", "o", "l", "e">>,
      <<"R", "8", "0", "1", "5", "\t", "S", "y", "s", "t", "e", "m", "s", " ", "S", "u", "p", "p", "o", "r", "t", " ", "A", "c", "c", "e", "s", "s", " ", "R", "o", "l", "e">>,
      <<"R", "0", "0", "0", "1", "\t", "P", "r", "i", "v", "a", "c", "y", " ", "O", "f", "f", "i", "c", "e", "r">>,
      <<"R", "8", "0", "0", "9", "\t", "R", "e", "c", "e", "p", "t", "i", "o", "n", "i", "s", "t", " ", "A", "c", "c", "e", "s", "s", " ", "R", "o", "l", "e">>,
      <<"R", "8", "0", "1", "0", "\t", "C", "l", "e", "r", "i", "c", "a", "l", " ", "A", "c", "c", "e", "s", "s", " ", "R", "o", "l", "e">>,
      <<"R", "8", "0", "1", "1", "\t", "C", "l", "e", "r", "i", "c", "a", "l", " ", "M", "a", "n", "a", "g", "e", "r", " ", "A", "c", "c", "e", "s", "s", " ", "R", "o", "l", "e">>,
      <<"R", "8", "0", "1", "2", "\t", "I", "n", "f", "o", "r", "m", "a", "t", "i", "o", "n", " ", "O", "f", "f", "i", "c", "e", "r", " ", "A", "c", "c", "e", "s", "s", " ", "R", "o", "l", "e">>,
      <<"R", "8", "0", "1", "3", "\t", "H", "e", "a", "l", "t", "h", " ", "R", "e", "c", "o", "r", "d", "s", " ", "M", "a", "n", "a", "g", "e", "r", " ", "A", "c", "c", "e", "s", "s", " ", "R", "o", "l", "e">>,
      <<"R", "8", "0", "1", "4", "\t", "S", "o", "c", "i", "a", "l", " ", "W", "o", "r", "k", "e", "r", " ", "A", "c", "c", "e", "s", "s", " ", "R", "o", "l", "e">>>>

\* identifiers.SNOMEDCT, the URI of SNOMED CT
SNOMEDCT == "http://snomed.info/sct"

\* identifiers.ErrNotFound
ErrNotFound == [what |-> "identifiers.ErrNotFound"]
\* the error of Resolve / Map when nothing is bound
ErrUnknownSystem == [what |-> "UnknownSystem"]
\* fmt.Errorf("cannot map from SNOMED '%s': %w", ...)
ErrCannotMap == [what |-> "cannot map from SNOMED"]
\* fmt.Errorf("cannot map from SNOMED, expected concept, got: %s", ...)
ErrNotConcept == [what |-> "cannot map from SNOMED, expected concept"]

\* strings.Fields: the words of s, cut at runs of white space
RECURSIVE Fields(_)
Fields(s) ==
    LET t == TrimLeft(s)
    IN IF t = <<>> THEN <<>>
       ELSE LET n == CHOOSE i \in 1..(Len(t) + 1) :
                        /\ i = Len(t) + 1 \/ IsSpace(t[i])
                        /\ \A j \in 1..(i - 1) : ~IsSpace(t[j])
            IN <<SubSeq(t, 1, n - 1)>> \o Fields(SubSeq(t, n, Len(t)))

\* strings.Join(words, sep)
RECURSIVE Join(_, _)
Join(words, sep) ==
    IF words = <<>> THEN <<>>
    ELSE IF Len(words) = 1 THEN words[1]
    ELSE words[1] \o sep \o Join(Tail(words), sep)

\* the deprecation marker
Closed == <<"(", "C", "l", "o", "s", "e", "d", ")">>

\* a mutant: the marker sets the flag but stays in the title
parseEntry_KeepMarker(entry) ==
    LET words == Fields(entry)
    IN IF Len(words) = 0 THEN [skip |-> TRUE]
       ELSE [skip |-> FALSE, code |-> words[1],
             role |-> [JobTitle |-> Join(Tail(words), <<" ">>),
                       Deprecated |-> words[Len(words)] = Closed]]

\* one pass of init's loop over the lines of sdsData
parseEntry(entry) ==
    LET words == Fields(entry)
    IN IF Len(words) = 0 THEN [skip |-> TRUE]
       ELSE LET deprecated == words[Len(words)] = Closed
                kept == IF deprecated THEN SubSeq(words, 1, Len(words) - 1) ELSE words
            IN [skip |-> FALSE, code |-> words[1],
                role |-> [JobTitle |-> Join(Tail(kept), <<" ">>),
                          Deprecated |-> deprecated]]

\* init's loop over strings.Split(sdsData, "\n"), line by line
entries == [i \in DOMAIN sdsData |-> parseEntry(sdsData[i])]

\* the lines the loop does not skip
Kept == {i \in DOMAIN entries : ~entries[i].skip}

\* the last element of a non-empty set of line numbers
Last(S) == CHOOSE i \in S : \A j \in S : j <= i

\* codes and jobTitles after the loop: each line writes codes[code] and
\* jobTitles[jobTitle], so the last line with a code or a title is the one that stays
loadTable ==
    [codes |->
        [c \in {entries[i].code : i \in Kept} |->
            entries[Last({i \in Kept : entries[i].code = c})].role],
     jobTitles |->
        [t \in {entries[i].role.JobTitle : i \in Kept} |->
            entries[Last({i \in Kept : entries[i].role.JobTitle = t})].code]]

\* the concepts of the forward map
Targets == {sdsMapping[c] : c \in DOMAIN sdsMapping}

\* "for sds, sct := range sdsMapping { sdsReverseMapping[sct] = sds }": Go visits
\* a map in an order it does not fix, and the last code written for a concept
\* stays; so every code of a concept can be the one that stays
Sources(sct) == {c \in DOMAIN sdsMapping : sdsMapping[c] = sct}

RECURSIVE ReverseOver(_)
ReverseOver(T) ==
    IF T = {} THEN {<<>>}
    ELSE LET sct == CHOOSE x \in T : TRUE
         IN {(sct :> c) @@ t : c \in Sources(sct), t \in ReverseOver(T \ {sct})}

ReverseTables == ReverseOver(Targets)

\* string(n) of an integer n: the UTF-8 text of the code point n, one character;
\* U+FFFD for a value that is no valid code point: above utf8.MaxRune (1114111)
\* or a surrogate (55296..57343)
RuneString(n) ==
    IF n > 1114111 \/ n \in 55296..57343
    THEN <<"U+FFFD">>
    ELSE <<"U+" \o ToString(n)>>

\* the decimal number a text of digits denotes
RECURSIVE ParseDecimal(_)
ParseDecimal(s) ==
    IF s = <<>> THEN 0
    ELSE 10 * ParseDecimal(SubSeq(s, 1, Len(s) - 1)) + DigitVal(s[Len(s)])

\* the Verhoeff tables: multiplication in the dihedral group D5, and the permutation
VerhoeffD ==
    <<<<0, 1, 2, 3, 4, 5, 6, 7, 8, 9>>, <<1, 2, 3, 4, 0, 6, 7, 8, 9, 5>>,
      <<2, 3, 4, 0, 1, 7, 8, 9, 5, 6>>, <<3, 4, 0, 1, 2, 8, 9, 5, 6, 7>>,
      <<4, 0, 1, 2, 3, 9, 5, 6, 7, 8>>, <<5, 9, 8, 7, 6, 0, 4, 3, 2, 1>>,
      <<6, 5, 9, 8, 7, 1, 0, 4, 3, 2>>, <<7, 6, 5, 9, 8, 2, 1, 0, 4, 3>>,
      <<8, 7, 6, 5, 9, 3, 2, 1, 0, 4>>, <<9, 8, 7, 6, 5, 4, 3, 2, 1, 0>>>>
VerhoeffP ==
    <<<<0, 1, 2, 3, 4, 5, 6, 7, 8, 9>>, <<1, 5, 7, 6, 2, 8, 3, 0, 9, 4>>,
      <<5, 8, 0, 3, 7, 9, 6, 1, 4, 2>>, <<8, 9, 1, 6, 0, 4, 3, 5, 2, 7>>,
      <<9, 4, 5, 3, 1, 2, 6, 8, 7, 0>>, <<4, 2, 8, 6, 5, 7, 3, 9, 0, 1>>,
      <<2, 7, 9, 3, 8, 0, 6, 4, 1, 5>>, <<7, 0, 4, 6, 9, 1, 3, 2, 5, 8>>>>

\* the checksum of the last n digits of s, from the right
RECURSIVE VerhoeffSum(_, _)
VerhoeffSum(s, n) ==
    IF n = 0 THEN 0
    ELSE LET c == VerhoeffSum(s, n - 1)
             digit == DigitVal(s[Len(s) - n + 1])
         IN VerhoeffD[c + 1][VerhoeffP[((n - 1) % 8) + 1][digit + 1] + 1]

VerhoeffValid(s) == VerhoeffSum(s, Len(s)) = 0

\* snomed.ParseValidIdentifier(s, true): s is read as a decimal number and its
\* last digit must be the Verhoeff check digit of the others
ParseValidIdentifier(s) ==
    IF s = <<>> \/ ~AllDigits(s) THEN [id |-> 0, err |-> [what |-> "syntax"]]
    ELSE IF ~VerhoeffValid(s) THEN [id |-> 0, err |-> [what |-> "invalid identifier"]]
    ELSE [id |-> ParseDecimal(s), err |-> Nil]

\* snomed.Identifier.IsConcept: the partition identifier, the two digits before
\* the check digit, is 00 (core) or 10 (extension)
IsConcept(sctID) == (sctID \div 10) % 100 \in {0, 10}

\* roleResolver: a mutant that folds the case of the value first
UpperCode(c) == IF c = "r" THEN "R" ELSE c
roleResolver_FoldCase(id) ==
    LET v == [i \in 1..Len(id.Value) |-> UpperCode(id.Value[i])]
    IN IF v \in DOMAIN codes THEN [res |-> codes[v], err |-> Nil]
       ELSE [res |-> Nil, err |-> ErrNotFound]

roleResolver(id) ==
    IF id.Value \in DOMAIN codes THEN [res |-> codes[id.Value], err |-> Nil]
    ELSE [res |-> Nil, err |-> ErrNotFound]

mapSDStoSNOMED(id) ==
    IF id.Value \in DOMAIN sdsMapping
    THEN [id |-> [System |-> SNOMEDCT, Value |-> RuneString(sdsMapping[id.Value])],
          err |-> Nil]
    ELSE [id |-> Nil, err |-> ErrNotFound]

\* a mutant: the value is looked up without being validated
mapSNOMEDtoSDS_NoValidation(id) ==
    LET n == IF AllDigits(id.Value) THEN ParseDecimal(id.Value) ELSE 0
    IN IF n \in DOMAIN sdsReverseMapping
       THEN [id |-> [System |-> SDSJobRoleNameURI, Value |-> sdsReverseMapping[n]],
             err |-> Nil, consulted |-> TRUE]
       ELSE [id |-> Nil, err |-> ErrNotFound, consulted |-> TRUE]

\* consulted: whether sdsReverseMapping was read
mapSNOMEDtoSDS(id) ==
    LET parsed == ParseValidIdentifier(id.Value)
    IN IF parsed.err # Nil
       THEN [id |-> Nil, err |-> ErrCannotMap, consulted |-> FALSE]
       ELSE IF ~IsConcept(parsed.id)
       THEN [id |-> Nil, err |-> ErrNotConcept, consulted |-> FALSE]
       ELSE IF parsed.id \in DOMAIN sdsReverseMapping
       THEN [id |-> [System |-> SDSJobRoleNameURI, Value |-> sdsReverseMapping[parsed.id]],
             err |-> Nil, consulted |-> TRUE]
       ELSE [id |-> Nil, err |-> ErrNotFound, consulted |-> TRUE]

\* identifiers.Register(name, uri): the display name of a system; a second
\* registration overwrites the first
Register(name, uri) == (uri :> name) @@ systems

\* identifiers.RegisterResolver(uri, fn)
RegisterResolver(uri, fn) == (uri :> fn) @@ resolvers

\* identifiers.RegisterMapper(src, dst, fn): binds the ordered pair only
RegisterMapper(src, dst, fn) == (<<src, dst>> :> fn) @@ mappers

\* the call of a bound resolver
CallResolver(fn, id) ==
    CASE fn = "roleResolver" -> roleResolver(id)

\* the call of a bound mapper
CallMapper(fn, id) ==
    CASE fn = "mapSDStoSNOMED" -> mapSDStoSNOMED(id)
      [] fn = "mapSNOMEDtoSDS" -> mapSNOMEDtoSDS(id)

\* identifiers.Resolve(ctx, id); invoked: the resolver that was called
Resolve(id) ==
    IF id.System \in DOMAIN resolvers
    THEN [invoked |-> resolvers[id.System], out |-> CallResolver(resolvers[id.System], id)]
    ELSE [invoked |-> "none", out |-> [res |-> Nil, err |-> ErrUnknownSystem]]

\* identifiers.Map(ctx, id, target); invoked: the mapper that was called
Map(id, target) ==
    IF <<id.System, target>> \in DOMAIN mappers
    THEN [invoked |-> mappers[<<id.System, target>>],
          out |-> CallMapper(mappers[<<id.System, target>>], id)]
    ELSE [invoked |-> "none", out |-> [id |-> Nil, err |-> ErrUnknownSystem]]

\* init, step by step
initRegister ==
    /\ mode = "sds" /\ initPc = "start"
    /\ systems' = Register("SDS Job Roles", SDSJobRoleNameURI)
    /\ initPc' = "resolver"
    /\ UNCHANGED <<serverVars, pureVars, resolvers, mappers, codes, jobTitles, sdsReverseMapping>>

initRegisterResolver ==
    /\ mode = "sds" /\ initPc = "resolver"
    /\ resolvers' = RegisterResolver(SDSJobRoleNameURI, "roleResolver")
    /\ initPc' = "table"
    /\ UNCHANGED <<serverVars, pureVars, systems, mappers, codes, jobTitles, sdsReverseMapping>>

initTable ==
    /\ mode = "sds" /\ initPc = "table"
    /\ LET loaded == loadTable
       IN /\ codes' = loaded.codes
          /\ jobTitles' = loaded.jobTitles
    /\ initPc' = "reverse"
    /\ UNCHANGED <<serverVars, pureVars, registryVars, sdsReverseMapping>>

initReverse ==
    /\ mode = "sds" /\ initPc = "reverse"
    /\ sdsReverseMapping' \in ReverseTables
    /\ initPc' = "mapperSDS"
    /\ UNCHANGED <<serverVars, pureVars, registryVars, codes, jobTitles>>

initMapperSDS ==
    /\ mode = "sds" /\ initPc = "mapperSDS"
    /\ mappers' = RegisterMapper(SDSJobRoleNameURI, SNOMEDCT, "mapSDStoSNOMED")
    /\ initPc' = "mapperSNOMED"
    /\ UNCHANGED <<serverVars, pureVars, systems, resolvers, codes, jobTitles, sdsReverseMapping>>

\* a mutant: the second registration repeats the pair of the first
initMapperSNOMED_SamePair ==
    /\ mode = "sds" /\ initPc = "mapperSNOMED"
    /\ mappers' = RegisterMapper(SDSJobRoleNameURI, SNOMEDCT, "mapSNOMEDtoSDS")
    /\ initPc' = "done"
    /\ UNCHANGED <<serverVars, pureVars, systems, resolvers, codes, jobTitles, sdsReverseMapping>>

initMapperSNOMED ==
    /\ mode = "sds" /\ initPc = "mapperSNOMED"
    /\ mappers' = RegisterMapper(SNOMEDCT, SDSJobRoleNameURI, "mapSNOMEDtoSDS")
    /\ initPc' = "done"
    /\ UNCHANGED <<serverVars, pureVars, systems, resolvers, codes, jobTitles, sdsReverseMapping>>

\* values that are no code of the table
OtherCodes ==
    {<<>>, <<"r", "0", "0", "5", "0">>, <<"R", "9", "9", "9", "9">>,
     <<"R", "0", "0", "5", "0", " ">>, <<"R", "0", "0", "5">>,
     <<"C", "o", "n", "s", "u", "l", "t", "a", "n", "t">>}

\* the concepts of the forward map in decimal; a concept that is not mapped
\* (24700007), a description identifier (1000015), a wrong check digit
\* (768839009) and texts that are no number
SnomedTexts ==
    {<<"7", "6", "8", "8", "3", "9", "0", "0", "8">>,
     <<"1", "5", "8", "8", "9", "0", "0", "0", "4">>,
     <<"3", "0", "9", "3", "9", "6", "0", "0", "2">>,
     <<"3", "9", "7", "9", "0", "8", "0", "0", "5">>,
     <<"2", "2", "4", "5", "2", "9", "0", "0", "9">>,
     <<"3", "0", "2", "2", "1", "1", "0", "0", "9">>,
     <<"2", "2", "4", "5", "3", "0", "0", "0", "4">>,
     <<"2", "2", "4", "5", "3", "1", "0", "0", "0">>,
     <<"2", "2", "4", "5", "3", "2", "0", "0", "7">>,
     <<"1", "5", "8", "9", "7", "2", "0", "0", "4">>,
     <<"6", "2", "2", "4", "7", "0", "0", "1">>,
     <<"3", "0", "9", "4", "5", "4", "0", "0", "0">>,
     <<"1", "5", "9", "0", "3", "3", "0", "0", "5">>,
     <<"3", "0", "9", "4", "1", "8", "0", "0", "4">>,
     <<"3", "9", "4", "5", "7", "2", "0", "0", "6">>,
     <<"2", "4", "7", "0", "0", "0", "0", "7">>, <<"1", "0", "0", "0", "0", "1", "5">>, <<"7", "6", "8", "8", "3", "9", "0", "0", "9">>,
     <<>>, <<"U+FFFD">>, <<"R", "0", "0", "5", "0">>, <<"7", "6", "8", " ">>}

SystemInputs == {SDSJobRoleNameURI, SNOMEDCT, "urn:oid:2.16.840.1.113883.2.1.3.2.4.18.48", ""}

SdsReady == mode = "sds" /\ initPc = "done" /\ output = NoOutput

ApplyRoleResolver ==
    /\ SdsReady
    /\ \E v \in DOMAIN codes \cup OtherCodes :
          /\ input' = [fn |-> "roleResolver", value |-> v]
          /\ output' = [fn |-> "roleResolver",
                        res |-> roleResolver([System |-> SDSJobRoleNameURI, Value |-> v])]
    /\ UNCHANGED <<serverVars, sdsVars>>

ApplyMapSNOMEDtoSDS ==
    /\ SdsReady
    /\ \E v \in SnomedTexts :
          /\ input' = [fn |-> "mapSNOMEDtoSDS", value |-> v]
          /\ output' = [fn |-> "mapSNOMEDtoSDS",
                        res |-> mapSNOMEDtoSDS([System |-> SNOMEDCT, Value |-> v])]
    /\ UNCHANGED <<serverVars, sdsVars>>

\* mapSDStoSNOMED, and mapSNOMEDtoSDS applied to what it returned
ApplyRoundTrip ==
    /\ SdsReady
    /\ \E v \in DOMAIN codes \cup OtherCodes :
          LET forward == mapSDStoSNOMED([System |-> SDSJobRoleNameURI, Value |-> v])
          IN /\ input' = [fn |-> "roundtrip", value |-> v]
             /\ output' = [fn |-> "roundtrip", forward |-> forward,
                           back |-> IF forward.err = Nil THEN mapSNOMEDtoSDS(forward.id)
                                    ELSE [id |-> Nil, err |-> Nil, consulted |-> FALSE]]
    /\ UNCHANGED <<serverVars, sdsVars>>

ApplyResolve ==
    /\ SdsReady
    /\ \E s \in SystemInputs, v \in OtherCodes \cup {<<"R", "0", "0", "5", "0">>} :
          /\ input' = [fn |-> "Resolve", system |-> s, value |-> v]
          /\ output' = [fn |-> "Resolve", res |-> Resolve([System |-> s, Value |-> v])]
    /\ UNCHANGED <<serverVars, sdsVars>>

ApplyMap ==
    /\ SdsReady
    /\ \E s \in SystemInputs, target \in SystemInputs,
          v \in {<<"R", "0", "0", "5", "0">>, <<"R", "9", "9", "9", "9">>, <<"7", "6", "8", "8", "3", "9", "0", "0", "8">>, <<>>} :
          /\ input' = [fn |-> "Map", system |-> s, value |-> v, target |-> target]
          /\ output' = [fn |-> "Map", res |-> Map([System |-> s, Value |-> v], target)]
    /\ UNCHANGED <<serverVars, sdsVars>>

InitSDS ==
    /\ mode = "sds"
    /\ cacheOn = FALSE /\ ttl = 0 /\ fake = FALSE
    /\ endpoint = UnknownEndpoint
    /\ now = 0
    /\ cache = [k \in Keys |-> NoItem]
    /\ req = [r \in Reqs |-> IdleReq]
    /\ cli = IdleCli
    /\ input = NoInput
    /\ output = NoOutput
    /\ SdsNotStarted

NextSDS ==
    \/ initRegister
    \/ initRegisterResolver
    \/ initTable
    \/ initReverse
    \/ initMapperSDS
    \/ initMapperSNOMED
    \/ ApplyRoleResolver
    \/ ApplyMapSNOMEDtoSDS
    \/ ApplyRoundTrip
    \/ ApplyResolve
    \/ ApplyMap

SpecSDS == InitSDS /\ [][NextSDS]_vars

-----------------------------------------------------------------------------
(* Properties of the server (checked under Spec) *)

\* the codes of the closed authority set
KnownCodes == {"NHS", "100", "139", "108", "109", "110", "111", "126", "140", "149", "170"}

\* handler r starts writeIdentifier in this step
StartsLookup(r) == req[r].pc = "idle" /\ req'[r].pc # "idle" /\ req'[r].cacheRead

\* handler r gets the result of performRequest in this step
EndsCall(r) == req[r].pc = "inflight" /\ req'[r].pc = "done"

\* C1: not-found results are never cached: no cache entry holds an absent (nil)
\* patient.
C1_AbsenceNeverCached ==
    \A k \in Keys : cache[k] # NoItem => cache[k].pt # Nil

\* C2, as claimed: two lookups for the same key within the TTL invoke the remote
\* transport exactly once. While the server is no older than the TTL every two
\* lookups are within the TTL of each other, so no two calls for one key may be
\* outstanding.
C2_TwoLookupsOneCall ==
    (mode = "serve" /\ cacheOn /\ ~fake /\ now <= ttl) =>
        \A r1, r2 \in Reqs :
            (r1 # r2 /\ req[r1].pc = "inflight" /\ req[r2].pc = "inflight")
                => req[r1].key # req[r2].key

C2_Step ==
    \A r \in Reqs :
        /\ (cacheOn /\ ~fake /\ EndsCall(r) /\ req'[r].status \in {200, 404}) =>
              cache'[req[r].key] = [pt |-> req'[r].pt, exp |-> now + ttl]
        /\ (cacheOn /\ ~fake /\ StartsLookup(r)) =>
              LET k == req'[r].key
              IN /\ (cache[k] # NoItem /\ now <= cache[k].exp) =>
                        /\ req'[r].called = "none"
                        /\ req'[r].pc = "done"
                        /\ req'[r].pt = cache[k].pt
                 /\ (cache[k] = NoItem \/ now > cache[k].exp) =>
                        /\ req'[r].called = "remote"
                        /\ req'[r].pc = "inflight"

\* C2, amended: with caching enabled, a lookup that completes without error stores
\* its result for the TTL; a lookup for that key started while the entry is live
\* (within the TTL) is answered from the cache without a remote call, and a lookup
\* started when the key has no entry or an expired one calls the remote service.
C2_CachedWithinTTL == [][C2_Step]_vars

\* a lookup answered from the cache: an earlier lookup for the key stored the patient
C2_Witness ==
    \E r \in Reqs :
        /\ cacheOn /\ ~fake
        /\ req[r].pc = "done" /\ req[r].hit /\ req[r].called = "none"
        /\ req[r].status = 200

C3_Step ==
    /\ \A r \in Reqs :
          (req[r].pc = "idle" /\ req'[r].pc # "idle" /\ req'[r].route = "authority"
           /\ req'[r].authority \notin KnownCodes) =>
              /\ req'[r].pc = "done" /\ req'[r].status = 400
              /\ req'[r].called = "none" /\ ~req'[r].cacheRead /\ ~req'[r].wrote
              /\ cache' = cache
    /\ \A r \in Reqs : req'[r].called # "none" => req'[r].calledAuth # AuthorityUnknown
    /\ (cli.pc = "ready" /\ cli'.pc = "done" /\ cli.authority \notin KnownCodes) =>
          /\ ~cli'.called
          /\ cli'.outcome = "fatal: unsupported authority"
          /\ cache' = cache
    /\ cli'.called => cli'.calledAuth # AuthorityUnknown

\* C3: an authority code outside the fixed set is rejected before any remote work:
\* GetByIdentifier answers 400, main2 and Invoke stop, performRequest is not called,
\* the cache is neither read nor written; performRequest never gets AuthorityUnknown.
C3_UnknownAuthorityRejected == [][C3_Step]_vars

C3_Witness ==
    \E r \in Reqs :
        /\ req[r].pc = "done" /\ req[r].route = "authority" /\ req[r].authority = "ZZZ"
        /\ req[r].user # "" /\ req[r].status = 400

\* C4: whenever the deadline elapses before the remote call has completed, in any
\* phase of the call, the request ends with the timeout outcome (408).
C4_DeadlineMeansTimeout ==
    \A r \in Reqs :
        (req[r].pc = "done" /\ req[r].deadline \in {"connect", "body"}) => req[r].status = 408

LookupFailed(rec) ==
    \/ rec.deadline \in {"connect", "body"}
    \/ rec.conn = "fail"
    \/ rec.read = "fail"
    \/ rec.bodyKind \in {"notxml", "wrongroot"}

C6_Step ==
    \A r \in Reqs :
        /\ (EndsCall(r) /\ LookupFailed(req'[r])) =>
              /\ cache' = cache
              /\ ~req'[r].wrote
              /\ req'[r].status \in {408, 500}
        /\ (StartsLookup(r)
            /\ ~(cache[req'[r].key] # NoItem /\ now <= cache[req'[r].key].exp)) =>
              req'[r].called # "none"

\* C6: a lookup that ends in a timeout, a transport failure or a parse failure
\* writes nothing to the cache (the cache is as before), and a request for a key
\* that has no live entry calls the remote system (or the fake) again.
C6_FailureWritesNothing == [][C6_Step]_vars

C6_Witness ==
    \E r \in Reqs :
        cacheOn /\ req[r].pc = "done" /\ req[r].deadline = "connect" /\ req[r].status = 408

\* C7: with the cache expiration configured as 0 there is no cache: nothing is
\* ever stored, no request is answered from it, and every validated request
\* performs its own remote or fake lookup.
C7_ZeroTTLNoCache ==
    (mode = "serve" /\ ttl = 0) =>
        /\ ~cacheOn
        /\ \A k \in Keys : cache[k] = NoItem
        /\ \A r \in Reqs :
              (req[r].pc # "idle" /\ req[r].status # 400) =>
                  /\ ~req[r].hit
                  /\ req[r].called = (IF fake THEN "fake" ELSE "remote")

C7_Witness ==
    \E r \in Reqs :
        /\ mode = "serve" /\ ttl = 0
        /\ req[r].pc = "done" /\ req[r].wrote /\ req[r].status = 200

\* C16: a request makes at most one call of performRequest, whatever the call ends
\* in: a request that called the remote service and was answered (a patient, not
\* found, 408 or 500) called it exactly once, and a request answered from the
\* cache, by the fake or with 400 did not call it.
C16_AtMostOneRemoteCall ==
    \A r \in Reqs :
        /\ req[r].calls <= 1
        /\ req[r].pc = "inflight" => req[r].calls = 1
        /\ (req[r].pc = "done" /\ req[r].called = "remote") => req[r].calls = 1
        /\ req[r].called # "remote" => req[r].calls = 0

C16_Witness ==
    \E r \in Reqs :
        /\ req[r].pc = "done"
        /\ req[r].status = 408
        /\ req[r].calls = 1

\* identifier values, one of them with a "/" in it
KeyValues == {"7253698428", "1", "40/1", ""}

\* different (authority, value) pairs of the known authorities have different keys
KeysDistinct ==
    \A a1 \in KnownCodes, a2 \in KnownCodes, v1 \in KeyValues, v2 \in KeyValues :
        CacheKey(a1, v1) = CacheKey(a2, v2) => (a1 = a2 /\ v1 = v2)

\* C17: a patient served for (authority, value) is the record of that authority and
\* value, whatever other requests do to the cache meanwhile; two different
\* (authority, value) pairs of the known authorities never have the same key; and
\* /nhsnumber/{n} and /authority/NHS/{n} use the key "NHS/" + n.
C17_KeyPerAuthorityAndValue ==
    /\ \A r \in Reqs :
          /\ (req[r].pc = "done" /\ req[r].status = 200) =>
                /\ req[r].pt.Identifiers[1].System = PassedAuthority(req[r])
                /\ req[r].pt.Identifiers[1].Value = req[r].identifier
          /\ (req[r].cacheRead /\ (req[r].route = "nhsnumber" \/ req[r].authority = "NHS")) =>
                req[r].key = "NHS/" \o req[r].identifier
    /\ KeysDistinct

\* a patient is served from the cache while the other authority's record for the
\* same value is in the cache too
C17_Witness ==
    \E r \in Reqs :
        /\ req[r].pc = "done" /\ req[r].status = 200 /\ req[r].hit
        /\ \A k \in Keys : cache[k] # NoItem /\ cache[k].pt # Nil
        /\ \E k \in Keys : cache[k].pt # cache[req[r].key].pt

\* the lookup of the answered request ended without an error and without a patient:
\* the service's reply parsed as an envelope that has no surname, or the cache
\* held "no patient" for the key
AbsentWithoutError(rec) ==
    /\ rec.pt = Nil
    /\ \/ rec.hit
       \/ /\ rec.called = "remote"
          /\ rec.deadline = "none" /\ rec.conn = "ok" /\ rec.read = "ok"
          /\ rec.bodyKind = "envelope"

\* C23: a lookup that yields no patient and no error is answered 404 "not found",
\* never 500 or 408.
C23_AbsentIs404 ==
    \A r \in Reqs :
        (req[r].pc = "done" /\ AbsentWithoutError(req[r])) => req[r].status = 404

C23_Witness ==
    \E r \in Reqs :
        /\ req[r].pc = "done"
        /\ req[r].called = "remote" /\ req[r].bodyKind = "envelope" /\ req[r].remoteStatus = 200
        /\ req[r].pt = Nil
        /\ req[r].status = 404

KnownEndpoints == {ProductionEndpoint, TestingEndpoint, DevelopmentEndpoint}

\* the endpoint the first letter of a flag names
NamedEndpoint(s) ==
    IF s = <<>> THEN UnknownEndpoint
    ELSE IF s[1] \in {"P", "p"} THEN ProductionEndpoint
    ELSE IF s[1] \in {"T", "t"} THEN TestingEndpoint
    ELSE IF s[1] \in {"D", "d"} THEN DevelopmentEndpoint
    ELSE UnknownEndpoint

\* C25: LookupEndpoint selects production, testing or development by the first
\* letter P, T or D of the flag, ignoring case, and unknown otherwise; each known
\* endpoint has its own non-empty URL and its own one-letter processing code,
\* pairwise distinct; main2 stops at an unknown endpoint before any remote call,
\* and no request is posted to the empty URL with the empty processing code: a run
\* of main2 calls only with the URL and code of a known endpoint, and a call given
\* the empty URL fails before anything is sent.
C25_Endpoints ==
    /\ \A e \in KnownEndpoints :
          /\ endpointURLs[e + 1] # ""
          /\ Len(endpointCodes[e + 1]) = 1
    /\ \A e, f \in KnownEndpoints :
          e # f => /\ endpointURLs[e + 1] # endpointURLs[f + 1]
                   /\ endpointCodes[e + 1] # endpointCodes[f + 1]
    /\ input.fn = "main2" =>
          /\ endpoint = NamedEndpoint(input.endpoint)
          /\ endpoint = UnknownEndpoint =>
                /\ mode = "fatal"
                /\ ~cli.called
                /\ \A r \in Reqs : req[r].pc = "idle"
          /\ cli.called =>
                /\ cli.calledURL = endpointURLs[endpoint + 1] /\ cli.calledURL # ""
                /\ cli.code = endpointCodes[endpoint + 1] /\ cli.code # ""
          /\ \A r \in Reqs :
                req[r].called = "remote" =>
                    /\ req[r].calledURL = endpointURLs[endpoint + 1] /\ req[r].calledURL # ""
                    /\ endpointCodes[endpoint + 1] # ""
    /\ (cli.called /\ cli.calledURL = "") =>
          /\ cli.bodyKind = "-"
          /\ cli.outcome = "fatal: error"

\* the testing endpoint, named in lower case, was called with its URL and code "U"
C25_Witness ==
    /\ input.fn = "main2"
    /\ input.endpoint = <<"t">>
    /\ endpoint = TestingEndpoint
    /\ cli.called
    /\ cli.code = "U"

\* the key has a live entry in the cache
Live(key) == cacheOn /\ cache[key] # NoItem /\ now <= cache[key].exp

C27_Step ==
    \A r \in Reqs :
        /\ (StartsLookup(r) /\ ~Live(req'[r].key)) =>
              /\ ~req'[r].hit
              /\ ~fake => (req'[r].pc = "inflight" /\ req'[r].called = "remote"
                            /\ req'[r].calls = 1)
        /\ (EndsCall(r) /\ req'[r].wrote /\ cacheOn) =>
              /\ cache'[req'[r].key] = [pt |-> req'[r].pt, exp |-> now + ttl]
              /\ \A k \in Keys \ {req'[r].key} : cache'[k] = cache[k]
        /\ req'[r].calls <= (IF req'[r].cacheRead /\ ~req'[r].hit THEN 1 ELSE 0)

\* C27: requests for the same uncached key are not coalesced: a request that finds
\* no live entry for its key performs its own remote call, whether or not another
\* request for the key is waiting for the service; a request that stores its result
\* replaces whatever the key held, so the cache holds the result of the request
\* that stored last; and a request calls the service at most once, and only after
\* it observed a miss.
C27_NotCoalesced == [][C27_Step]_vars

\* one request has stored its result while another, which missed on the same key,
\* still waits for its own call
C27_Witness ==
    \E r, q \in Reqs :
        /\ r # q
        /\ cacheOn
        /\ req[r].pc = "done" /\ req[r].called = "remote" /\ req[r].wrote
        /\ req[q].pc = "inflight" /\ req[q].calls = 1
        /\ req[q].key = req[r].key
        /\ cache[req[r].key] # NoItem
        /\ cache[req[r].key].pt = req[r].pt

\* the request handler r takes in this step has no 'user', or is for an NHS number
\* that is not 10 characters long
Invalid(r) ==
    /\ req[r].pc = "idle" /\ req'[r].pc # "idle"
    /\ \/ req'[r].user = ""
       \/ req'[r].route = "nhsnumber" /\ Len(req'[r].identifier) # 10

C28_Step ==
    \A r \in Reqs :
        Invalid(r) =>
            /\ req'[r].pc = "done" /\ req'[r].status = 400
            /\ ~req'[r].cacheRead /\ ~req'[r].hit /\ ~req'[r].wrote
            /\ req'[r].called = "none" /\ req'[r].calls = 0
            /\ cache' = cache

\* C28: a request without a non-empty 'user', and a request for an NHS number that
\* is not exactly 10 characters long, is answered 400 without reading or writing
\* the cache and without a remote or fake lookup.
C28_ValidationFirst == [][C28_Step]_vars

\* a request without 'user' refused, its key live in the cache
C28_Witness ==
    \E r \in Reqs :
        /\ req[r].pc = "done" /\ req[r].status = 400
        /\ req[r].user = "" /\ req[r].route = "nhsnumber"
        /\ Len(req[r].identifier) = 10
        /\ Live(CacheKey(authorityCodes[AuthorityNHS + 1], req[r].identifier))

\* C29: a reply of the service with a non-success HTTP status is reported as an
\* error of the request: the request is not answered with a patient or with "not
\* found", and nothing is written to the cache.
C29_BadStatusIsError ==
    \A r \in Reqs :
        (req[r].pc = "done" /\ req[r].remoteStatus \notin {0, 200}) =>
            /\ req[r].status \in {408, 500}
            /\ req[r].pt = Nil
            /\ ~req[r].wrote

\* C30: the resources of a remote call are released on every path: once
\* performRequest has returned the timeout context is cancelled, and a response
\* body that client.Do handed over is closed, also when reading it failed.
C30_ResourcesReleased ==
    \A r \in Reqs :
        (req[r].pc = "done" /\ req[r].called = "remote") =>
            /\ req[r].cancelled
            /\ req[r].bodyObtained => req[r].bodyClosed

-----------------------------------------------------------------------------
(* Properties of the normalisation (checked under SpecNorm) *)

OnlySpaces(s) == \A i \in 1..Len(s) : s[i] = " "

\* the response has neither a surname nor given names
NamesEmpty(e) ==
    \/ e.PID5 = <<>>
    \/ /\ e.PID5[1].FN1 = <<>>
       /\ OnlySpaces(e.PID5[1].XPN2)
       /\ OnlySpaces(e.PID5[1].XPN3)

KeptIdentifier(id) == id.CX1 # "" /\ id.CX4HD1 # ""

CountIf(q, Test(_)) == Cardinality({i \in 1..Len(q) : Test(q[i])})

HasNumber(t) == t.XTN1 # ""
HasEmail(t) == t.XTN4 # ""

\* C8: ToPatient returns absent (nil, nil) exactly when surname and given names
\* are both empty; otherwise a patient whose every field comes from the response;
\* never an error.
C8_AbsentOrComplete ==
    output.fn = "ToPatient" =>
        LET e == input.env
            res == output.res
        IN /\ res.err = Nil
           /\ (res.pt = Nil) <=> NamesEmpty(e)
           /\ res.pt # Nil =>
                 /\ res.pt.Lastname = e.PID5[1].FN1
                 /\ res.pt.Title = e.PID5[1].XPN5
                 /\ res.pt.Gender = e.PID8
                 /\ res.pt.Surgery = e.PD13XON3
                 /\ res.pt.GeneralPractitioner = e.PD14XCN1
                 /\ (e.PID7TS1 = <<"1", "9", "6", "0", "0", "1", "0", "1">>
                        => res.pt.BirthDate = [year |-> 1960, month |-> 1, day |-> 1])
                 /\ Len(res.pt.Identifiers) = CountIf(e.PID3, KeptIdentifier)
                 /\ Len(res.pt.Addresses) = Len(e.PID11)
                 /\ Len(res.pt.Telecom) =
                        CountIf(e.PID13 \o e.PID14, HasNumber)
                        + CountIf(e.PID13 \o e.PID14, HasEmail)

\* given names without a surname: a full patient, not absent
C8_Witness ==
    /\ output.fn = "ToPatient"
    /\ input.env.PID5 # <<>>
    /\ input.env.PID5[1].FN1 = <<>>
    /\ output.res.pt # Nil
    /\ output.res.pt.Gender = "F"
    /\ Len(output.res.pt.Addresses) = 1

ExpectedIdentifiers(e) ==
    LET kept == SelectSeq(e.PID3, KeptIdentifier)
    IN [i \in 1..Len(kept) |->
           [Use |-> "official", System |-> kept[i].CX4HD1,
            Assigner |-> [Reference |-> kept[i].CX4HD1, Display |-> kept[i].CX4HD1],
            Value |-> kept[i].CX1]]

\* C9: the identifiers of the patient are exactly the PID.3 entries with a
\* non-empty authority and a non-empty value, in order, repeats kept, each tagged
\* "official" with system and assigner the entry's authority and value its value.
C9_Identifiers ==
    (output.fn = "ToPatient" /\ output.res.pt # Nil) =>
        output.res.pt.Identifiers = ExpectedIdentifiers(input.env)

\* a repeated entry is kept twice
C9_Witness ==
    /\ output.fn = "ToPatient"
    /\ output.res.pt # Nil
    /\ Len(input.env.PID3) = 2
    /\ input.env.PID3[1] = input.env.PID3[2]
    /\ Len(output.res.pt.Identifiers) = 2

First8(t) == IF Len(t) > 8 THEN SubSeq(t, 1, 8) ELSE t

DigitOf(c) == CHOOSE n \in 0..9 : <<"0", "1", "2", "3", "4", "5", "6", "7", "8", "9">>[n + 1] = c

Number(t, from, to) ==
    LET RECURSIVE value(_)
        value(i) == IF i < from THEN 0 ELSE 10 * value(i - 1) + DigitOf(t[i])
    IN value(to)

MonthLengths == <<31, 28, 31, 30, 31, 30, 31, 31, 30, 31, 30, 31>>

LastDay(y, m) ==
    IF m = 2 /\ ((y % 4 = 0 /\ y % 100 # 0) \/ y % 400 = 0) THEN 29 ELSE MonthLengths[m]

\* the 8 characters are YYYYMMDD of a day of the calendar
CalendarDate(t) ==
    /\ Len(t) = 8
    /\ \A i \in 1..8 : t[i] \in {"0", "1", "2", "3", "4", "5", "6", "7", "8", "9"}
    /\ Number(t, 5, 6) \in 1..12
    /\ Number(t, 7, 8) >= 1
    /\ Number(t, 7, 8) <= LastDay(Number(t, 1, 4), Number(t, 5, 6))

DateNamed(t) == [year |-> Number(t, 1, 4), month |-> Number(t, 5, 6), day |-> Number(t, 7, 8)]

\* the date the claim gives a timestamp text
ClaimedDate(text) ==
    IF CalendarDate(First8(text)) THEN DateNamed(First8(text)) ELSE Nil

ZeroDateText == <<"0", "0", "0", "1", "0", "1", "0", "1">>

\* the date the amended claim gives a timestamp text
AmendedDate(text) ==
    IF CalendarDate(First8(text)) /\ First8(text) # ZeroDateText
    THEN DateNamed(First8(text))
    ELSE Nil

\* C10, as claimed: a text whose first 8 characters are a valid calendar date
\* yields that date, every other text yields "date unknown", for parseDate and for
\* the birth and death dates, and the lookup does not fail.
C10_ValidDateYieldsDate ==
    /\ output.fn = "parseDate" => output.res.t = ClaimedDate(input.text)
    /\ (output.fn = "ToPatient" /\ ~NamesEmpty(input.env)) =>
          /\ output.res.err = Nil
          /\ output.res.pt.BirthDate = ClaimedDate(input.env.PID7TS1)
          /\ output.res.pt.DeathDate = ClaimedDate(input.env.PID29TS1)

\* C10, amended: a text whose first 8 characters are a valid calendar date other
\* than 0001-01-01 (the zero time) yields that date; an empty, shorter, unparsable
\* or all-zero text, and 00010101, yields "date unknown" for the birth and death
\* dates; the lookup never fails.
C10_DateNormalisation ==
    /\ output.fn = "parseDate" => output.res.t = AmendedDate(input.text)
    /\ (output.fn = "ToPatient" /\ ~NamesEmpty(input.env)) =>
          /\ output.res.err = Nil
          /\ output.res.pt.BirthDate = AmendedDate(input.env.PID7TS1)
          /\ output.res.pt.DeathDate = AmendedDate(input.env.PID29TS1)

C10_Witness ==
    /\ output.fn = "ToPatient"
    /\ input.env.PID7TS1 =
          <<"1", "9", "6", "0", "0", "1", "0", "1", "0", "0", "0", "0", "0", "0">>
    /\ input.env.PID29TS1 = <<"0", "0", "0", "0", "0", "0", "0", "0">>
    /\ output.res.pt # Nil
    /\ output.res.pt.BirthDate = [year |-> 1960, month |-> 1, day |-> 1]
    /\ output.res.pt.DeathDate = Nil


\* a text without white space at either end and without two spaces in a row
Tidy(s) ==
    /\ s # <<>> => (~IsSpace(s[1]) /\ ~IsSpace(s[Len(s)]))
    /\ \A i \in 1..(Len(s) - 1) : ~(s[i] = " " /\ s[i + 1] = " ")

\* C19: surname, title and given names come from the first name entry only: the
\* surname is its family name, the title its fifth component, and the given names
\* its second and third components with one space between them, without white
\* space at either end and without a doubled space; without a name entry all
\* three are empty.
C19_NameNormalisation ==
    (output.fn = "ToPatient" /\ input.fn = "ToPatient") =>
        LET e == input.env
        IN IF e.PID5 = <<>>
           THEN surname(e) = <<>> /\ firstnames(e) = <<>> /\ title(e) = <<>>
           ELSE /\ surname(e) = e.PID5[1].FN1
                /\ title(e) = e.PID5[1].XPN5
                /\ Tidy(firstnames(e))
                /\ output.res.pt # Nil => output.res.pt.Firstnames = firstnames(e)

\* the contact points of the entries before entry i
PointsBefore(all, i) ==
    CountIf(SubSeq(all, 1, i - 1), HasNumber) + CountIf(SubSeq(all, 1, i - 1), HasEmail)

\* C20: the contact points are those of the entries of PID.13 followed by those of
\* PID.14, in order; an entry gives a phone point when its number is not empty and,
\* after it, an email point when its email is not empty, so their number is the
\* sum over the entries.
C20_ContactPoints ==
    (output.fn = "ToPatient" /\ output.res.pt # Nil) =>
        LET all == input.env.PID13 \o input.env.PID14
            out == output.res.pt.Telecom
        IN /\ Len(out) = CountIf(all, HasNumber) + CountIf(all, HasEmail)
           /\ \A i \in 1..Len(all) :
                 LET n == PointsBefore(all, i)
                 IN /\ HasNumber(all[i]) =>
                          /\ out[n + 1].System = "phone"
                          /\ out[n + 1].Value = all[i].XTN1
                          /\ out[n + 1].Description = all[i].LongName
                    /\ HasEmail(all[i]) =>
                          LET k == IF HasNumber(all[i]) THEN n + 2 ELSE n + 1
                          IN /\ out[k].System = "email"
                             /\ out[k].Value = all[i].XTN4

\* entries in both lists, one of them with a number and an email, one with neither
C20_Witness ==
    /\ output.fn = "ToPatient"
    /\ output.res.pt # Nil
    /\ Len(input.env.PID13) = MaxList
    /\ Len(input.env.PID14) >= 1
    /\ \E i \in 1..Len(input.env.PID13) :
          HasNumber(input.env.PID13[i]) /\ HasEmail(input.env.PID13[i])
    /\ \E i \in 1..Len(input.env.PID13) :
          ~HasNumber(input.env.PID13[i]) /\ ~HasEmail(input.env.PID13[i])
    /\ HasEmail(input.env.PID14[1])
    /\ Len(output.res.pt.Telecom) >= 3


\* the date the code's 8-digit rule gives a validity bound, Nil when it gives none
BoundDate(text) == AmendedDate(text)

AddressFields(a, x) ==
    /\ a.Line = x.SAD1 /\ a.City = x.XAD2 /\ a.District = x.XAD3
    /\ a.Country = x.XAD4 /\ a.PostalCode = x.XAD5

\* C21, as claimed: every entry of the address list yields exactly one Address, in
\* the original order, and an entry whose two validity bounds cannot be parsed
\* yields an Address whose period is unset.
C21_PeriodUnset ==
    (output.fn = "ToPatient" /\ output.res.pt # Nil) =>
        /\ Len(output.res.pt.Addresses) = Len(input.env.PID11)
        /\ \A i \in 1..Len(input.env.PID11) :
              /\ AddressFields(output.res.pt.Addresses[i], input.env.PID11[i])
              /\ (BoundDate(input.env.PID11[i].XAD13) = Nil
                    /\ BoundDate(input.env.PID11[i].XAD14) = Nil)
                    => output.res.pt.Addresses[i].Period = Nil

\* C21, amended: every entry of the address list yields exactly one Address, in the
\* original order, whatever its date sub-fields contain; the Address always carries
\* a period, whose start and end are each the date the 8-digit rule gives that
\* bound, and unset when the bound cannot be parsed.
C21_Addresses ==
    (output.fn = "ToPatient" /\ output.res.pt # Nil) =>
        /\ Len(output.res.pt.Addresses) = Len(input.env.PID11)
        /\ \A i \in 1..Len(input.env.PID11) :
              /\ AddressFields(output.res.pt.Addresses[i], input.env.PID11[i])
              /\ output.res.pt.Addresses[i].Period # Nil
              /\ output.res.pt.Addresses[i].Period.Start = BoundDate(input.env.PID11[i].XAD13)
              /\ output.res.pt.Addresses[i].Period.End = BoundDate(input.env.PID11[i].XAD14)

\* two addresses that differ, the first without a bound that can be parsed, the
\* second with both
C21_Witness ==
    /\ output.fn = "ToPatient"
    /\ output.res.pt # Nil
    /\ Len(input.env.PID11) = MaxList
    /\ input.env.PID11[1].SAD1 # input.env.PID11[2].SAD1
    /\ BoundDate(input.env.PID11[1].XAD13) = Nil
    /\ BoundDate(input.env.PID11[1].XAD14) = Nil
    /\ input.env.PID11[1].XAD13 # <<>>
    /\ BoundDate(input.env.PID11[2].XAD13) # Nil
    /\ BoundDate(input.env.PID11[2].XAD14) # Nil

\* C22: the authority type sent is "NH" for the NHS authority, "PE" for the EMPI
\* authority and "PI" for every other authority, the code sent is the authority's
\* own, and every authority of the enumeration has an entry in the code table and
\* in the type table.
C22_AuthorityTypes ==
    /\ \A a \in Authorities : a + 1 \in DOMAIN authorityCodes /\ a + 1 \in DOMAIN authorityTypes
    /\ output.fn = "NewIdentifierRequest" =>
          /\ output.res.Authority = authorityCodes[input.authority + 1]
          /\ output.res.Identifier = input.identifier
          /\ input.authority = AuthorityNHS => output.res.AuthorityType = "NH"
          /\ input.authority = AuthorityEMPI => output.res.AuthorityType = "PE"
          /\ input.authority \notin {AuthorityUnknown, AuthorityNHS, AuthorityEMPI}
                => output.res.AuthorityType = "PI"

C22_Witness ==
    /\ output.fn = "NewIdentifierRequest"
    /\ input.authority = AuthorityEMPI
    /\ output.res.AuthorityType = "PE"
    /\ output.res.Authority = "100"

KnownAuthorities == Authorities \ {AuthorityUnknown}

\* C24: LookupAuthority is an exact, case-sensitive lookup: the codes of the known
\* authorities are pairwise distinct, the code of a known authority yields that
\* authority, and every other text, the empty one included, yields AuthorityUnknown.
C24_LookupAuthority ==
    /\ \A a, b \in KnownAuthorities : a # b => authorityCodes[a + 1] # authorityCodes[b + 1]
    /\ output.fn = "LookupAuthority" =>
          /\ \A a \in KnownAuthorities :
                input.text = authorityCodes[a + 1] => output.res = a
          /\ (\A a \in KnownAuthorities : input.text # authorityCodes[a + 1])
                => output.res = AuthorityUnknown

\* a code in another case, answered AuthorityUnknown
C24_Witness ==
    /\ output.fn = "LookupAuthority"
    /\ input.text = "nhs"
    /\ output.res = AuthorityUnknown

-----------------------------------------------------------------------------
(* Properties of package sds (checked under SpecSDS) *)

\* the places of a line where a word starts, and where the word starting at i ends
WordStarts(line) ==
    {i \in 1..Len(line) : ~IsSpace(line[i]) /\ (i = 1 \/ IsSpace(line[i - 1]))}
WordEnd(line, i) ==
    CHOOSE j \in i..Len(line) :
        /\ \A k \in i..j : ~IsSpace(line[k])
        /\ j = Len(line) \/ IsSpace(line[j + 1])

\* the tokens of a line of the table, in order
TokensOf(line) ==
    LET starts == WordStarts(line)
        nth(k) == CHOOSE i \in starts : Cardinality({j \in starts : j < i}) = k - 1
    IN [k \in 1..Cardinality(starts) |-> SubSeq(line, nth(k), WordEnd(line, nth(k)))]

\* words set one after the other with one space between two of them
RECURSIVE Spaced(_)
Spaced(words) ==
    IF Len(words) = 0 THEN <<>>
    ELSE IF Len(words) = 1 THEN words[1]
    ELSE Spaced(SubSeq(words, 1, Len(words) - 1)) \o <<" ">> \o words[Len(words)]

Marker == <<"(", "C", "l", "o", "s", "e", "d", ")">>

\* what the table says of each line: its code, its title and whether it is closed
TableSays ==
    [i \in DOMAIN sdsData |->
        LET tokens == TokensOf(sdsData[i])
            closed == Len(tokens) > 0 /\ tokens[Len(tokens)] = Marker
            last == IF closed THEN Len(tokens) - 1 ELSE Len(tokens)
        IN [empty |-> Len(tokens) = 0,
            code |-> IF Len(tokens) = 0 THEN <<>> ELSE tokens[1],
            title |-> Spaced(SubSeq(tokens, 2, last)),
            closed |-> closed]]

TableCodes == {TableSays[i].code : i \in {j \in DOMAIN sdsData : ~TableSays[j].empty}}

TheSDSCode(text) == [System |-> SDSJobRoleNameURI, Value |-> text]

\* C11: every code of the forward table comes back from mapSDStoSNOMED followed by
\* mapSNOMEDtoSDS as the identifier (SDS system, code); a code that is not in the
\* forward table is answered NotFound.
C11_RoundTrip ==
    output.fn = "roundtrip" =>
        IF \E i \in DOMAIN sdsMappingEntries : sdsMappingEntries[i][1] = input.value
        THEN /\ output.forward.err = Nil
             /\ output.back.err = Nil
             /\ output.back.id = TheSDSCode(input.value)
        ELSE output.forward.err = ErrNotFound

\* C12: resolving the code of a non-empty line of the table yields the role whose
\* title is the line's other words with single spaces between them, without the
\* marker "(Closed)", and whose Deprecated flag says whether the line ends with
\* the marker; <<"R", "0", "0", "5", "0">> is Consultant, not deprecated; <<"R", "0", "1", "2", "0">> is Senior Registrar,
\* deprecated.
C12_RoleTable ==
    output.fn = "roleResolver" =>
        /\ \A i \in DOMAIN sdsData :
              (~TableSays[i].empty /\ input.value = TableSays[i].code) =>
                 /\ output.res.err = Nil
                 /\ output.res.res.JobTitle = TableSays[i].title
                 /\ output.res.res.Deprecated = TableSays[i].closed
        /\ input.value = <<"R", "0", "0", "5", "0">> =>
              output.res.res = [JobTitle |-> <<"C", "o", "n", "s", "u", "l", "t", "a", "n", "t">>, Deprecated |-> FALSE]
        /\ input.value = <<"R", "0", "1", "2", "0">> =>
              output.res.res = [JobTitle |-> <<"S", "e", "n", "i", "o", "r", " ", "R", "e", "g", "i", "s", "t", "r", "a", "r">>, Deprecated |-> TRUE]

C12_Witness ==
    /\ output.fn = "roleResolver"
    /\ input.value = <<"R", "0", "1", "2", "0">>
    /\ output.res.err = Nil
    /\ output.res.res.Deprecated

\* C13: a value that is not a code of the table, such as a code in another letter
\* case or the empty text, resolves to NotFound and no record.
C13_ExactLookup ==
    (output.fn = "roleResolver" /\ input.value \notin TableCodes) =>
        /\ output.res.err = ErrNotFound
        /\ output.res.res = Nil

C13_Witness ==
    /\ output.fn = "roleResolver"
    /\ input.value = <<"r", "0", "0", "5", "0">>
    /\ output.res.err = ErrNotFound

\* texts that are no SNOMED identifier: empty, not a number, a wrong check digit
MalformedTexts == {<<>>, <<"U+FFFD">>, <<"R", "0", "0", "5", "0">>, <<"7", "6", "8", " ">>, <<"7", "6", "8", "8", "3", "9", "0", "0", "9">>}
\* a well-formed identifier of a description, not of a concept
NotConceptTexts == {<<"1", "0", "0", "0", "0", "1", "5">>}

\* C14: mapSNOMEDtoSDS answers a text that is no well-formed SNOMED identifier, or
\* is the identifier of something else than a concept, with an error that is not
\* NotFound, and does not read the reverse table for it.
C14_ReverseValidates ==
    (output.fn = "mapSNOMEDtoSDS" /\ input.value \in MalformedTexts \cup NotConceptTexts) =>
        /\ output.res.err # Nil
        /\ output.res.err # ErrNotFound
        /\ output.res.id = Nil
        /\ ~output.res.consulted

C14_Witness ==
    /\ output.fn = "mapSNOMEDtoSDS"
    /\ input.value = <<"7", "6", "8", "8", "3", "9", "0", "0", "9">>
    /\ output.res.err = ErrCannotMap
    /\ ~output.res.consulted

\* C15: the reverse table keeps one code for every concept of the forward table,
\* and the code it keeps is the one every initialization keeps.
C15_DeterministicInversion ==
    initPc \in {"mapperSDS", "mapperSNOMED", "done"} =>
        /\ DOMAIN sdsReverseMapping = {sdsMappingEntries[i][2] : i \in DOMAIN sdsMappingEntries}
        /\ \A t \in ReverseTables : t = sdsReverseMapping

BothDirections == {<<SDSJobRoleNameURI, SNOMEDCT>>, <<SNOMEDCT, SDSJobRoleNameURI>>}

\* C18: Resolve on a system without a resolver and Map on a pair without a mapper
\* answer UnknownSystem and call nothing; a registration binds the pair it names
\* and no other, so the pair (SNOMED, SDS) is unbound until it is registered itself,
\* and after init each of the two pairs is bound to its own mapper.
C18_UnknownSystemAndDirections ==
    /\ (output.fn = "Resolve" /\ input.system # SDSJobRoleNameURI) =>
          /\ output.res.invoked = "none"
          /\ output.res.out.err = ErrUnknownSystem
    /\ (output.fn = "Map" /\ <<input.system, input.target>> \notin BothDirections) =>
          /\ output.res.invoked = "none"
          /\ output.res.out.err = ErrUnknownSystem
    /\ initPc \in {"start", "resolver", "table", "reverse", "mapperSDS"} =>
          DOMAIN mappers = {}
    /\ initPc = "mapperSNOMED" => DOMAIN mappers = {<<SDSJobRoleNameURI, SNOMEDCT>>}
    /\ initPc = "done" =>
          /\ DOMAIN mappers = BothDirections
          /\ mappers[<<SDSJobRoleNameURI, SNOMEDCT>>] = "mapSDStoSNOMED"
          /\ mappers[<<SNOMEDCT, SDSJobRoleNameURI>>] = "mapSNOMEDtoSDS"

C18_Witness ==
    /\ output.fn = "Map"
    /\ input.system = SNOMEDCT /\ input.target = SNOMEDCT
    /\ output.res.invoked = "none"
    /\ output.res.out.err = ErrUnknownSystem

\* the text is the decimal numeral of n
DecimalTextOf(text, n) ==
    /\ Len(text) >= 1
    /\ AllDigits(text)
    /\ text[1] # "0"
    /\ ParseDecimal(text) = n

\* C26: for a code of the forward table mapSDStoSNOMED returns a SNOMED CT identifier
\* whose value is the decimal text of the concept id (<<"R", "0", "0", "5", "0">>
\* gives "768839008"), so that different concepts give different values, and
\* mapSNOMEDtoSDS accepts the value.
C26_DecimalValue ==
    (output.fn = "roundtrip" /\ input.value \in DOMAIN sdsMapping) =>
        /\ output.forward.err = Nil
        /\ output.forward.id.System = SNOMEDCT
        /\ DecimalTextOf(output.forward.id.Value, sdsMapping[input.value])
        /\ input.value = <<"R", "0", "0", "5", "0">> =>
              output.forward.id.Value = <<"7", "6", "8", "8", "3", "9", "0", "0", "8">>
        /\ output.back.err = Nil

====
